---- MODULE Spec2Model ----
(***************************************************************************)
(* SafetyMV (Rule2Chant): the job record, the pipeline orchestrator, the   *)
(* job API requests (cancel, HITL decision) and the media sub-jobs of one  *)
(* job.  The pipeline states, the job status edges and the retry policy    *)
(* are the repository's design documents; the handlers of the job API are  *)
(* the backend contract the clients call.                                  *)
(*                                                                         *)
(* Scores are in tenths (4 stands for 0.4), progress in percent.           *)
(***************************************************************************)
EXTENDS Integers, Sequences, FiniteSets, TLC

VARIABLES job, hitl, hitl_mode, inflight, response, music_store, media,
          console, request, job_store, lyric, landing, style_form,
          strategy_dir, web

vars == <<job, hitl, hitl_mode, inflight, response, music_store, media,
          console, request, job_store, lyric, landing, style_form,
          strategy_dir, web>>

(***************************************************************************)
(* Bounds of the model.                                                    *)
(***************************************************************************)
\* number of video-clip jobs (scenes) in the media plan
NumClips == 2

\* style locks the style binder may return
Styles == {"styleA", "styleB"}

(***************************************************************************)
(* Pipeline states, job statuses, retry policy.                            *)
(***************************************************************************)
\* State Machine document: the pipeline states in their defined order
StateOrder ==
  << "INIT", "CONCEPT_GEN", "QA", "HITL", "LOCK_BLUEPRINT_CORE",
     "STYLE_BIND", "PARALLEL_MEDIA_GEN", "RENDER", "DONE" >>

StateIndex(s) == CHOOSE i \in 1..Len(StateOrder) : StateOrder[i] = s

NextStateMutSkipStyle(s) ==
  IF s = "LOCK_BLUEPRINT_CORE" THEN "PARALLEL_MEDIA_GEN"
  ELSE StateOrder[StateIndex(s) + 1]

NextStateMutStuck(s) ==
  IF s = "LOCK_BLUEPRINT_CORE" THEN s ELSE StateOrder[StateIndex(s) + 1]

\* the state that follows s on the straight path of the state machine
NextState(s) == StateOrder[StateIndex(s) + 1]

\* the statuses the status endpoint reports
Statuses ==
  { "queued", "running", "hitl_required", "media_running", "media_done",
    "completed", "failed", "canceled" }

IsTerminalMutNoCanceled(st) == st \in {"completed", "failed"}

\* Job Status Transition Rules: completed, failed, canceled are terminal
IsTerminal(st) == st \in {"completed", "failed", "canceled"}

CancelAllowedMutNonTerminal(st) ==
  st \notin {"completed", "failed", "canceled"}

CancelAllowedMutAnyTime(st) == st \in {"queued", "running", "completed"}

\* Job Status Transition Rules: only queued and running have an edge to canceled
CancelAllowed(st) == st \in {"queued", "running"}

\* Retry Policy: maximum number of ConceptGen retries
MaxRetry == 1

MaxClipRetryMutThree == 2 + 1

\* Retry table of the strategies: a failed clip is retried at most twice
MaxClipRetry == 2

\* Retry Policy: the retry condition is a QA fail (of either concept)
QAFailed(qa) == \E i \in 1..Len(qa) : qa[i].result = "fail"

ShouldRetryMutUnbounded(qa, rc) == QAFailed(qa) /\ rc < MaxRetry + 1

ShouldRetryMutBothOnly(qa, rc) ==
  /\ \A i \in 1..Len(qa) : qa[i].result = "fail"
  /\ rc < MaxRetry

\* Retry Policy: retry ConceptGen on QA fail, at most MaxRetry times
ShouldRetry(qa, rc) == QAFailed(qa) /\ rc < MaxRetry

BestCandidateMutLast(qa) == IF qa[2].score >= qa[1].score THEN 2 ELSE 1

\* Retry Policy fallback / HITL skip: the highest-scoring candidate, the
\* first in candidate order on a tie
BestCandidate(qa) == IF qa[2].score > qa[1].score THEN 2 ELSE 1

ConceptIds == <<"c1", "c2">>

ConceptPairMutSameId(gen) ==
  << [concept_id |-> ConceptIds[1], gen |-> gen],
     [concept_id |-> ConceptIds[1], gen |-> gen] >>

\* ConceptGen: exactly two candidates; gen tells the initial pair (1) from
\* the pair of the retry (2)
ConceptPair(gen) ==
  << [concept_id |-> ConceptIds[1], gen |-> gen],
     [concept_id |-> ConceptIds[2], gen |-> gen] >>

\* BlueprintAssembler: deterministic normalisation of the selected concept,
\* one scene per clip slot
AssembleBlueprint(sel) == [ source |-> sel, scenes |-> NumClips ]

\* progress reported for a pipeline state (percent)
ProgressOf(s) ==
  CASE s = "INIT" -> 0
    [] s = "CONCEPT_GEN" -> 30
    [] s = "QA" -> 60
    [] s = "HITL" -> 80
    [] s = "LOCK_BLUEPRINT_CORE" -> 82
    [] s = "STYLE_BIND" -> 84
    [] s = "PARALLEL_MEDIA_GEN" -> 85
    [] s = "RENDER" -> 95
    [] OTHER -> 100

Max(a, b) == IF a >= b THEN a ELSE b

(***************************************************************************)
(* The job record.                                                         *)
(***************************************************************************)
NoArtifacts ==
  [ concepts |-> <<>>, qa_results |-> <<>>, selected_concept |-> <<>>,
    blueprint |-> <<>>, style |-> "none", video_jobs |-> <<>>,
    suno |-> "none", output_url |-> "none" ]

\* the debug console as the page loads: no job, no poll timer, the
\* Submit HITL button as the markup has it (not disabled), no options
NoConsole ==
  [ job_id |-> "none", timer |-> FALSE, processing |-> FALSE,
    submit_enabled |-> TRUE, last_requires_human |-> "none",
    options |-> <<>>, checked |-> "none", radios_enabled |-> FALSE,
    hitl_status |-> "-", requests |-> 0, polled_status |-> "none" ]

\* the id of the job the model follows
JobId == "job_ab12cd"

\* no job-creation request is at the job API
NoRequest ==
  [ strategy |-> "none", prompt |-> "absent", safety_text |-> "absent",
    pdf_paths |-> -1, duration_seconds |-> -1, extra_top |-> FALSE,
    extra_options |-> FALSE, extra_attachments |-> FALSE ]

\* what the job store keeps of a created job
StoredJob(job_id, strategy) ==
  [ job_id |-> job_id, strategy |-> strategy, status |-> "queued" ]

\* the lyric-selection screen is not open
NoLyric ==
  [ page |-> "closed", status |-> "lyrics_processing", options |-> FALSE,
    selected |-> 0, isSubmitting |-> FALSE, polling |-> "none",
    lyrics_fetches |-> 0, video_fetches |-> 0, post |-> 0, posted |-> <<>>,
    errorMsg |-> "none" ]

\* the landing form is not open
NoLanding ==
  [ page |-> "closed", guidelines |-> FALSE, selectedStyles |-> <<>>,
    selectedGenres |-> "none", isGenerating |-> FALSE, clicks |-> 0,
    resets |-> {}, posts |-> {}, timers |-> {}, timeoutRef |-> 0,
    navigations |-> 0 ]

\* the intake form of the debug console as its markup loads: no style
\* checkbox checked, the first genre option selected
NoStyleForm == [ styles |-> {}, genre |-> "hiphop" ]

\* the strategy directory as shipped: its README and one file per strategy
\* (three of the seven of the catalogue); a file name is the sequence of
\* its dot-separated parts; nothing was listed yet
ShippedStrategyDir ==
  [ files   |-> { <<"README", "md">>, <<"origin", "md">>,
                  <<"parallel_stylelock", "md">>, <<"video_chain", "md">> },
    listing |-> {} ]

\* the primary web client as its script loads: no poll timer, no request
\* under way, the job id field empty
NoWeb ==
  [ pollTimer |-> 0, live |-> {}, calls |-> {}, started |-> 0, ticks |-> 0,
    creating |-> 0, jobIdInput |-> FALSE ]

\* no strategy run is under way
NoMedia ==
  [ strategy |-> "none", duration |-> 0, music |-> "none", clips |-> <<>>,
    submitted |-> <<>>, anchor |-> "none", seams |-> <<>>,
    rendered |-> FALSE ]

NewJobMutBlocking ==
  [ status |-> "completed", state |-> "INIT", retry_count |-> 0,
    render_retry |-> 0, progress |-> 0, artifacts |-> NoArtifacts, trace |-> <<>>,
    state_history |-> <<"INIT">>, error |-> "none" ]

\* POST /jobs: the record of a job that was just created
NewJob ==
  [ status |-> "queued", state |-> "INIT", retry_count |-> 0,
    render_retry |-> 0, progress |-> 0, artifacts |-> NoArtifacts, trace |-> <<>>,
    state_history |-> <<"INIT">>, error |-> "none" ]

NoHitl == [ requires_human |-> FALSE, selected_concept_id |-> "none" ]

Init ==
  /\ job = NewJob
  /\ hitl = NoHitl
  /\ hitl_mode \in {"required", "skip"}
  /\ inflight = "none"
  /\ response = [ op |-> "none", arg |-> "none", ok |-> TRUE ]
  /\ music_store = [ tasks |-> {}, tracks |-> {}, objects |-> {} ]
  /\ media = NoMedia
  /\ console = NoConsole
  /\ web = NoWeb
  /\ strategy_dir = ShippedStrategyDir
  /\ style_form = NoStyleForm
  /\ landing = NoLanding
  /\ lyric = NoLyric
  /\ request = NoRequest
  /\ job_store = { StoredJob(JobId, "parallel_stylelock") }

\* every transition appends to state_history
Enter(j, s) ==
  [ j EXCEPT !.state = s,
             !.state_history = Append(@, s),
             !.progress = Max(@, ProgressOf(s)) ]

Traced(j, step) == [ j EXCEPT !.trace = Append(@, step) ]

Failed(j, msg) == [ j EXCEPT !.status = "failed", !.error = msg ]

\* the orchestrator issues a step only for a running job with no call pending
CanStep == job.status = "running" /\ inflight = "none"

(***************************************************************************)
(* Orchestrator: queued -> running.                                        *)
(***************************************************************************)
PickUpMutNoRecheck ==
  /\ job.status \in {"queued", "canceled"}
  /\ job' = [ job EXCEPT !.status = "running" ]
  /\ UNCHANGED <<hitl, hitl_mode, inflight, response, music_store, media, console, request, job_store, lyric, landing, style_form, strategy_dir, web>>

\* a worker takes the job from the queue only while it is still queued
PickUp ==
  /\ job.status = "queued"
  /\ job' = [ job EXCEPT !.status = "running" ]
  /\ UNCHANGED <<hitl, hitl_mode, inflight, response, music_store, media, console, request, job_store, lyric, landing, style_form, strategy_dir, web>>

(***************************************************************************)
(* ConceptGen: the initial run from INIT, or the bounded retry from QA.    *)
(***************************************************************************)
CallConceptGen ==
  /\ CanStep
  /\ \/ /\ job.state = "INIT"
        /\ job' = job
     \/ /\ job.state = "QA"
        /\ ShouldRetry(job.artifacts.qa_results, job.retry_count)
        /\ job' = [ job EXCEPT !.retry_count = @ + 1 ]
  /\ inflight' = "ConceptGen"
  /\ UNCHANGED <<hitl, hitl_mode, response, music_store, media, console, request, job_store, lyric, landing, style_form, strategy_dir, web>>

\* a provider result that arrives for a job in a terminal status is dropped
ReturnConceptGen ==
  /\ inflight = "ConceptGen"
  /\ inflight' = "none"
  /\ \/ /\ IsTerminal(job.status)
        /\ job' = job
     \/ /\ ~IsTerminal(job.status)
        /\ job' = Failed(job, "step_error:ConceptGen")
     \/ /\ ~IsTerminal(job.status)
        /\ job' = Traced(
                    Enter([ job EXCEPT
                              !.artifacts.concepts =
                                 ConceptPair(job.retry_count + 1),
                              !.artifacts.qa_results = <<>> ],
                          "CONCEPT_GEN"),
                    "ConceptGen")
  /\ UNCHANGED <<hitl, hitl_mode, response, music_store, media, console, request, job_store, lyric, landing, style_form, strategy_dir, web>>

(***************************************************************************)
(* QA_Scorer: one result per concept.                                      *)
(***************************************************************************)
\* the results the scorer may return for one concept: a verdict and a score;
\* the verdict is the scorer's own and is not a threshold on the score
QAResults ==
  { [ result |-> "fail", score |-> 4 ],
    [ result |-> "fail", score |-> 6 ],
    [ result |-> "pass", score |-> 4 ] }

CallQA ==
  /\ CanStep
  /\ job.state = "CONCEPT_GEN"
  /\ inflight' = "QA_Scorer"
  /\ UNCHANGED <<job, hitl, hitl_mode, response, music_store, media, console, request, job_store, lyric, landing, style_form, strategy_dir, web>>

ReturnQA ==
  /\ inflight = "QA_Scorer"
  /\ inflight' = "none"
  /\ \/ /\ IsTerminal(job.status)
        /\ job' = job
     \/ /\ ~IsTerminal(job.status)
        /\ job' = Failed(job, "step_error:QA_Scorer")
     \/ /\ ~IsTerminal(job.status)
        /\ \E r1 \in QAResults, r2 \in QAResults :
             job' = Traced(
                      Enter([ job EXCEPT !.artifacts.qa_results = <<r1, r2>> ],
                            "QA"),
                      "QA_Scorer")
  /\ UNCHANGED <<hitl, hitl_mode, response, music_store, media, console, request, job_store, lyric, landing, style_form, strategy_dir, web>>

(***************************************************************************)
(* Human-in-the-loop gate.                                                 *)
(***************************************************************************)
Selected(concepts, i, edited) ==
  << [ concept_id |-> concepts[i].concept_id, gen |-> concepts[i].gen,
       edited |-> edited ] >>

RequiresHumanMutNever(mode) == FALSE

\* the gate pauses for a human unless the job was created with hitl_mode = skip
RequiresHuman(mode) == mode # "skip"

GoToHITLMutFailJob(j) ==
  IF QAFailed(j.artifacts.qa_results)
    THEN Failed(j, "qa_failed")
    ELSE [ Enter(j, "HITL") EXCEPT
             !.artifacts.selected_concept =
                Selected(j.artifacts.concepts,
                         BestCandidate(j.artifacts.qa_results), FALSE) ]

\* QA -> HITL with the current pair of concepts, the best candidate
\* preselected; also the fallback when the retried concepts still fail QA
GoToHITL(j) ==
  [ Enter(j, "HITL") EXCEPT
      !.artifacts.selected_concept =
         Selected(j.artifacts.concepts,
                  BestCandidate(j.artifacts.qa_results), FALSE) ]

\* QA -> HITL: all concepts passed, or the retry is used up.  With a human
\* required the job pauses in hitl_required; otherwise the preselected
\* concept is the decision and the pipeline goes on.
EnterHITL ==
  /\ CanStep
  /\ job.state = "QA"
  /\ ~ShouldRetry(job.artifacts.qa_results, job.retry_count)
  /\ LET best == ConceptIds[BestCandidate(job.artifacts.qa_results)]
     IN  \/ /\ RequiresHuman(hitl_mode)
            /\ job' = [ GoToHITL(job) EXCEPT
                          !.status = IF @ = "running" THEN "hitl_required"
                                     ELSE @ ]
            /\ hitl' = [ requires_human |-> TRUE,
                         selected_concept_id |-> best ]
         \/ /\ ~RequiresHuman(hitl_mode)
            /\ job' = Traced(GoToHITL(job), "HITL_Pick:auto")
            /\ hitl' = [ requires_human |-> FALSE,
                         selected_concept_id |-> best ]
  /\ UNCHANGED <<hitl_mode, inflight, response, music_store, media, console, request, job_store, lyric, landing, style_form, strategy_dir, web>>

\* what a HITL request may name: one of the two candidates, or no concept
PostedIds == {"c1", "c2", "none"}

HitlAcceptsMutRepost(j, h, cid) ==
  /\ ~IsTerminal(j.status)
  /\ j.state = "HITL" \/ j.state = "LOCK_BLUEPRINT_CORE"
  /\ \E i \in 1..Len(j.artifacts.concepts) :
       j.artifacts.concepts[i].concept_id = cid

\* POST /jobs/{id}/hitl is accepted only while the job waits for a human
\* and names one of the job's concepts
HitlAccepts(j, h, cid) ==
  /\ j.status = "hitl_required"
  /\ h.requires_human
  /\ \E i \in 1..Len(j.artifacts.concepts) :
       j.artifacts.concepts[i].concept_id = cid

Reply(op, arg, ok) == [ op |-> op, arg |-> arg, ok |-> ok ]

PostHitl ==
  \E cid \in PostedIds :
    \/ /\ HitlAccepts(job, hitl, cid)
       /\ \E edited \in BOOLEAN :
            LET i == CHOOSE k \in 1..2 : ConceptIds[k] = cid
            IN  job' = Traced(
                         [ job EXCEPT
                             !.status = IF @ = "hitl_required" THEN "running"
                                        ELSE @,
                             !.artifacts.selected_concept =
                                Selected(job.artifacts.concepts, i, edited) ],
                         "HITL_Pick:human")
       /\ hitl' = [ requires_human |-> FALSE, selected_concept_id |-> cid ]
       /\ response' = Reply("hitl", cid, TRUE)
       /\ UNCHANGED <<hitl_mode, inflight, music_store, media, console, request, job_store, lyric, landing, style_form, strategy_dir, web>>
    \/ /\ ~HitlAccepts(job, hitl, cid)
       /\ response' = Reply("hitl", cid, FALSE)
       /\ UNCHANGED <<job, hitl, hitl_mode, inflight, music_store, media, console, request, job_store, lyric, landing, style_form, strategy_dir, web>>

(***************************************************************************)
(* POST /jobs/{id}/cancel.                                                 *)
(***************************************************************************)
Cancel ==
  \/ /\ CancelAllowed(job.status)
     /\ job' = [ job EXCEPT !.status = "canceled" ]
     /\ response' = Reply("cancel", "none", TRUE)
     /\ UNCHANGED <<hitl, hitl_mode, inflight, music_store, media, console, request, job_store, lyric, landing, style_form, strategy_dir, web>>
  \/ /\ ~CancelAllowed(job.status)
     /\ response' = Reply("cancel", "none", FALSE)
     /\ UNCHANGED <<job, hitl, hitl_mode, inflight, music_store, media, console, request, job_store, lyric, landing, style_form, strategy_dir, web>>

(***************************************************************************)
(* GET /jobs/{id} and its debug view GET /jobs/{id}/debug.                 *)
(***************************************************************************)
\* the payload of the status endpoint for job record j and HITL record h
GetJobPayload(j, h) ==
  [ job_id   |-> JobId,
    status   |-> j.status,
    progress |-> j.progress,
    result   |-> [ job           |-> [ job_id      |-> JobId,
                                       state       |-> j.state,
                                       retry_count |-> j.retry_count,
                                       artifacts   |-> j.artifacts ],
                   hitl          |-> h,
                   state_history |-> j.state_history,
                   trace         |-> j.trace ],
    error    |-> j.error ]

GetJobMutLazyRefresh ==
  /\ response' = Reply("get", "none", TRUE)
  /\ job' = IF job.artifacts.suno = "queued"
              THEN [ job EXCEPT !.artifacts.suno = "stored" ]
              ELSE job
  /\ UNCHANGED <<hitl, hitl_mode, inflight, music_store, media, console, request, job_store, lyric, landing, style_form, strategy_dir, web>>

\* a read, of either view, answers with the payload of the current record
\* and writes nothing
GetJob ==
  /\ response' = Reply("get", "none", TRUE)
  /\ UNCHANGED <<job, hitl, hitl_mode, inflight, music_store, media, console, request, job_store, lyric, landing, style_form, strategy_dir, web>>

(***************************************************************************)
(* BlueprintAssembler and StyleBinder.                                     *)
(***************************************************************************)
\* HITL -> LOCK_BLUEPRINT_CORE: needs a recorded decision
LockBlueprint ==
  /\ CanStep
  /\ job.state = "HITL"
  /\ ~hitl.requires_human
  /\ job' = Traced(
              Enter([ job EXCEPT
                        !.artifacts.blueprint =
                           << AssembleBlueprint(
                                job.artifacts.selected_concept[1]) >> ],
                    NextState(job.state)),
              "BlueprintAssembler")
  /\ UNCHANGED <<hitl, hitl_mode, inflight, response, music_store, media, console, request, job_store, lyric, landing, style_form, strategy_dir, web>>

CallStyleBind ==
  /\ CanStep
  /\ job.state = "LOCK_BLUEPRINT_CORE"
  /\ inflight' = "StyleBinder"
  /\ UNCHANGED <<job, hitl, hitl_mode, response, music_store, media, console, request, job_store, lyric, landing, style_form, strategy_dir, web>>

ReturnStyleBind ==
  /\ inflight = "StyleBinder"
  /\ inflight' = "none"
  /\ \/ /\ IsTerminal(job.status)
        /\ job' = job
     \/ /\ ~IsTerminal(job.status)
        /\ job' = Failed(job, "step_error:StyleBinder")
     \/ /\ ~IsTerminal(job.status)
        /\ \E st \in Styles :
             job' = Traced(
                      Enter([ job EXCEPT !.artifacts.style = st ],
                            NextState(job.state)),
                      "StyleBinder")
  /\ UNCHANGED <<hitl, hitl_mode, response, music_store, media, console, request, job_store, lyric, landing, style_form, strategy_dir, web>>

(***************************************************************************)
(* Media planner, the video-clip jobs and the music job.                   *)
(***************************************************************************)
\* one video-clip job per scene of the blueprint, all submitted
(***************************************************************************)
(* Suno music module: task registry, callback results and the music bucket.*)
(***************************************************************************)
\* number of music tasks the direct endpoint may create
MaxTasks == 3

\* job ids a client may send to POST /suno/generate: free text
JobIds == {JobId, JobId \o "/task1"}

\* track ids the provider reports in a complete callback
TrackIds == {"trk1", "trk2"}

\* audio and cover of a track
Exts == {".mp3", ".jpg"}

ObjectKeyMutNoTask(job_id, task_id, track_id, ext) ==
  "suno/" \o job_id \o "/" \o track_id \o ext

\* storage rule: suno/{job_id}/{task_id}/{track_id}.mp3 and .jpg
ObjectKey(job_id, task_id, track_id, ext) ==
  "suno/" \o job_id \o "/" \o task_id \o "/" \o track_id \o ext

\* the provider's id of the n-th task
TaskId(n) == "task" \o ToString(n)

\* POST /suno/generate: the new task is registered under the job id
Register(ms, job_id) ==
  [ ms EXCEPT !.tasks = @ \cup { [ task_id |-> TaskId(Cardinality(@) + 1),
                                   job_id  |-> job_id ] } ]

\* complete callback for task t: every track is written under its key
StoreTracks(ms, t, track_ids) ==
  [ ms EXCEPT
      !.tracks  = @ \cup { <<t.task_id, k>> : k \in track_ids },
      !.objects = @ \cup { ObjectKey(t.job_id, t.task_id, k, e) :
                             k \in track_ids, e \in Exts } ]

\* the music task of the pipeline's job
TaskOf(ms, job_id) == CHOOSE t \in ms.tasks : t.job_id = job_id

MarkMusicMutAdvance(j, ok) ==
  IF ok
    THEN [ j EXCEPT !.artifacts.suno = "stored", !.status = "media_done" ]
    ELSE [ j EXCEPT !.artifacts.suno = "store_failed" ]

\* the callback marks the music sub-job stored, or store_failed when the
\* write failed
MarkMusic(j, ok) ==
  [ j EXCEPT !.artifacts.suno = IF ok THEN "stored" ELSE "store_failed" ]

PlannedClips(bp) ==
  [ i \in 1..bp.scenes |->
      [ status |-> "queued", retries |-> 0, fallback |-> FALSE ] ]

\* STYLE_BIND -> PARALLEL_MEDIA_GEN: the plan is built from the locked
\* blueprint and style, and every job is submitted without waiting
DispatchMedia ==
  /\ CanStep
  /\ job.state = "STYLE_BIND"
  /\ job' = Traced(
              Enter([ job EXCEPT
                        !.status = "media_running",
                        !.artifacts.video_jobs =
                           PlannedClips(job.artifacts.blueprint[1]),
                        !.artifacts.suno = "queued" ],
                    NextState(job.state)),
              "MediaPlanner")
  /\ music_store' = Register(music_store, JobId)
  /\ UNCHANGED <<hitl, hitl_mode, inflight, response, media, console, request, job_store, lyric, landing, style_form, strategy_dir, web>>

\* the result of clip i arrives: stored; a failed clip is retried alone, at
\* most MaxClipRetry times, then replaced by its freeze-frame fallback; a
\* provider error with no fallback fails the job
ClipResult ==
  \E i \in 1..Len(job.artifacts.video_jobs) :
    /\ job.artifacts.video_jobs[i].status = "queued"
    /\ ~IsTerminal(job.status)
    /\ LET c == job.artifacts.video_jobs[i]
       IN  \/ job' = [ job EXCEPT
                         !.artifacts.video_jobs[i].status = "stored" ]
           \/ /\ c.retries < MaxClipRetry
              /\ job' = [ job EXCEPT
                            !.artifacts.video_jobs[i].retries = @ + 1 ]
           \/ /\ c.retries >= MaxClipRetry
              /\ job' = [ job EXCEPT
                            !.artifacts.video_jobs[i].status = "stored",
                            !.artifacts.video_jobs[i].fallback = TRUE ]
           \/ job' = Failed(job, "provider_error:SoraVideo")
    /\ UNCHANGED <<hitl, hitl_mode, inflight, response, music_store, media, console, request, job_store, lyric, landing, style_form, strategy_dir, web>>

\* POST /callbacks/suno/music with callbackType = complete, for the music
\* task of the job while its sub-job is queued.  A callback for a terminal
\* job is dropped.  Otherwise the tracks are written to the bucket under
\* their keys and the music sub-job becomes stored, or store_failed when
\* the write failed.
MusicCallback ==
  \E ok \in BOOLEAN :
    /\ job.artifacts.suno = "queued"
    /\ \/ /\ IsTerminal(job.status)
          /\ UNCHANGED <<job, music_store, media, console, request, job_store, lyric, landing, style_form, strategy_dir, web>>
       \/ /\ ~IsTerminal(job.status)
          /\ music_store' =
               IF ok
                 THEN StoreTracks(music_store, TaskOf(music_store, JobId),
                                  TrackIds)
                 ELSE music_store
          /\ job' = MarkMusic(job, ok)
    /\ UNCHANGED <<hitl, hitl_mode, inflight, response, media, console, request, job_store, lyric, landing, style_form, strategy_dir, web>>

AllStoredMutClipsOnly(a) ==
  \A i \in 1..Len(a.video_jobs) : a.video_jobs[i].status = "stored"

\* every clip job and the music job are stored
AllStored(a) ==
  /\ a.suno = "stored"
  /\ \A i \in 1..Len(a.video_jobs) : a.video_jobs[i].status = "stored"

\* the orchestrator's polling loop observes that every media job is stored
MediaDone ==
  /\ job.status = "media_running"
  /\ AllStored(job.artifacts)
  /\ job' = [ job EXCEPT !.status = "media_done" ]
  /\ UNCHANGED <<hitl, hitl_mode, inflight, response, music_store, media, console, request, job_store, lyric, landing, style_form, strategy_dir, web>>

(***************************************************************************)
(* Renderer.                                                               *)
(***************************************************************************)
MaxRenderRetryMutTwo == 1 + 1

\* Retry table: a timing mismatch at render is retried once
MaxRenderRetry == 1

CallRender ==
  /\ job.status = "media_done"
  /\ job.state = "PARALLEL_MEDIA_GEN"
  /\ inflight = "none"
  /\ inflight' = "Renderer"
  /\ UNCHANGED <<job, hitl, hitl_mode, response, music_store, media, console, request, job_store, lyric, landing, style_form, strategy_dir, web>>

ReturnRender ==
  /\ inflight = "Renderer"
  /\ \/ /\ IsTerminal(job.status)
        /\ job' = job
        /\ inflight' = "none"
     \/ /\ ~IsTerminal(job.status)
        /\ job' = Traced(Enter(job, NextState(job.state)), "Renderer")
        /\ inflight' = "none"
     \/ /\ ~IsTerminal(job.status)
        /\ job.render_retry < MaxRenderRetry
        /\ job' = [ job EXCEPT !.render_retry = @ + 1 ]
        /\ inflight' = "Renderer"
     \/ /\ ~IsTerminal(job.status)
        /\ job.render_retry >= MaxRenderRetry
        /\ job' = Failed(job, "render_error:timing_mismatch")
        /\ inflight' = "none"
  /\ UNCHANGED <<hitl, hitl_mode, response, music_store, media, console, request, job_store, lyric, landing, style_form, strategy_dir, web>>

\* RENDER -> DONE: the final video is stored and exposed
Complete ==
  /\ job.status = "media_done"
  /\ job.state = "RENDER"
  /\ inflight = "none"
  /\ job' = [ Enter(job, NextState(job.state)) EXCEPT
                !.status = "completed",
                !.artifacts.output_url = "final.mp4" ]
  /\ UNCHANGED <<hitl, hitl_mode, inflight, response, music_store, media, console, request, job_store, lyric, landing, style_form, strategy_dir, web>>

Next ==
  \/ PickUp
  \/ CallConceptGen
  \/ ReturnConceptGen
  \/ CallQA
  \/ ReturnQA
  \/ EnterHITL
  \/ PostHitl
  \/ Cancel
  \/ GetJob
  \/ LockBlueprint
  \/ CallStyleBind
  \/ ReturnStyleBind
  \/ DispatchMedia
  \/ ClipResult
  \/ MusicCallback
  \/ MediaDone
  \/ CallRender
  \/ ReturnRender
  \/ Complete

Spec == Init /\ [][Next]_vars

\* a step of the orchestrator, of a provider call or of a media sub-job
PipelineStep ==
  \/ PickUp
  \/ CallConceptGen
  \/ ReturnConceptGen
  \/ CallQA
  \/ ReturnQA
  \/ EnterHITL
  \/ LockBlueprint
  \/ CallStyleBind
  \/ ReturnStyleBind
  \/ DispatchMedia
  \/ ClipResult
  \/ MusicCallback
  \/ MediaDone
  \/ CallRender
  \/ ReturnRender
  \/ Complete

\* the human posts a decision that is accepted
DecisionPosted ==
  /\ PostHitl
  /\ response'.ok

\* the pipeline under fairness: a step that can be taken is taken, a call
\* that was started returns, and a job that waits for a human gets a
\* decision
SpecFair ==
  /\ Init /\ [][Next]_vars
  /\ WF_vars(PipelineStep)
  /\ WF_vars(DecisionPosted)

(***************************************************************************)
(* The music module on its own: tasks created through POST /suno/generate  *)
(* for client-chosen job ids, and the provider's complete callbacks.       *)
(***************************************************************************)
SunoGenerate ==
  \E job_id \in JobIds :
    /\ Cardinality(music_store.tasks) < MaxTasks
    /\ music_store' = Register(music_store, job_id)
    /\ UNCHANGED <<job, hitl, hitl_mode, inflight, response, media, console, request, job_store, lyric, landing, style_form, strategy_dir, web>>

\* a complete callback for a registered task, carrying one or more tracks;
\* the provider may deliver the same callback again
SunoCallback ==
  \E t \in music_store.tasks, track_ids \in (SUBSET TrackIds) \ {{}},
     ok \in BOOLEAN :
    /\ music_store' = IF ok THEN StoreTracks(music_store, t, track_ids)
                             ELSE music_store
    /\ UNCHANGED <<job, hitl, hitl_mode, inflight, response, media, console, request, job_store, lyric, landing, style_form, strategy_dir, web>>

NextKeys ==
  \/ SunoGenerate
  \/ SunoCallback

SpecKeys == Init /\ [][NextKeys]_vars

(***************************************************************************)
(* Strategies: how the media of one job is generated and rendered.         *)
(***************************************************************************)
Strategies ==
  { "parallel_stylelock", "hybrid_overlap", "video_chain",
    "mix_audio_anchor", "sequential_anchor", "storyboard_keyframes" }

\* job lengths tried, within the schema's 30..90 seconds
Durations == {30, 40, 60}

\* the video provider produces at most 15 seconds per call
ProviderCapSeconds == 15

\* scene planning places the actions in 15-second slots
SlotSeconds == 15

\* hybrid_overlap asks for 1 to 2 seconds more than the slot
MinOverlap == 1

MaxOverlap == 2

\* parallel_stylelock joins the clips with a crossfade of 0.3 to 0.7 s
\* (in tenths of a second)
CrossfadeMin == 3

CrossfadeMax == 7

SceneCountMutFloor(d) == d \div SlotSeconds

\* as many slots as it takes to cover d seconds
SceneCount(d) == (d + SlotSeconds - 1) \div SlotSeconds

SlotLength(d, i) ==
  IF i < SceneCount(d) THEN SlotSeconds
  ELSE d - SlotSeconds * (SceneCount(d) - 1)

\* the length asked of the provider for a slot
ClipSeconds(s, slot, overlap) ==
  IF s = "hybrid_overlap" THEN slot + overlap ELSE slot

AudioFirstMutVideoFirst(s) == s \in {"video_chain"}

\* the music is generated first and fixes the beat map
AudioFirst(s) == s \in {"hybrid_overlap", "mix_audio_anchor", "video_chain"}

SequentialMutAnchorOnly(s) == s \in {"sequential_anchor"}

\* clips are generated one after the other, each from the one before
Sequential(s) == s \in {"video_chain", "sequential_anchor"}

\* the plan of a job of d seconds under strategy s: one clip per scene
PlanMedia(s, d, overlap) ==
  [ strategy  |-> s,
    duration  |-> d,
    music     |-> "planned",
    clips     |-> [ i \in 1..SceneCount(d) |->
                      [ seconds |-> ClipSeconds(s, SlotLength(d, i), overlap),
                        status  |-> "planned",
                        context |-> "none" ] ],
    submitted |-> <<>>,
    anchor    |-> "none",
    seams     |-> <<>>,
    rendered  |-> FALSE ]

InitMedia ==
  /\ job = NewJob
  /\ hitl = NoHitl
  /\ hitl_mode = "required"
  /\ inflight = "none"
  /\ response = [ op |-> "none", arg |-> "none", ok |-> TRUE ]
  /\ music_store = [ tasks |-> {}, tracks |-> {}, objects |-> {} ]
  /\ console = NoConsole
  /\ web = NoWeb
  /\ strategy_dir = ShippedStrategyDir
  /\ style_form = NoStyleForm
  /\ landing = NoLanding
  /\ lyric = NoLyric
  /\ request = NoRequest
  /\ job_store = { StoredJob(JobId, "parallel_stylelock") }
  /\ \E s \in Strategies, d \in Durations, overlap \in MinOverlap..MaxOverlap :
       media = PlanMedia(s, d, overlap)

AllClips(m, st) == \A i \in 1..Len(m.clips) : m.clips[i].status = st

\* sequential_anchor generates the music after the clips; the audio-first
\* strategies before them; the others alongside
StartMusic ==
  /\ media.music = "planned"
  /\ media.strategy = "sequential_anchor" => AllClips(media, "done")
  /\ media' = [ media EXCEPT !.music = "generating" ]
  /\ UNCHANGED <<job, hitl, hitl_mode, inflight, response, music_store, console, request, job_store, lyric, landing, style_form, strategy_dir, web>>

FinishMusic ==
  /\ media.music = "generating"
  /\ media' = [ media EXCEPT !.music = "done" ]
  /\ UNCHANGED <<job, hitl, hitl_mode, inflight, response, music_store, console, request, job_store, lyric, landing, style_form, strategy_dir, web>>

\* whether clip i may be handed to the video provider now
CanSubmit(m, i) ==
  /\ m.clips[i].status = "planned"
  /\ AudioFirst(m.strategy) => m.music = "done"
  /\ Sequential(m.strategy)
       => /\ \A k \in 1..Len(m.clips) : m.clips[k].status # "inflight"
          /\ i > 1 => /\ m.clips[i - 1].status = "done"
                       /\ m.clips[i].context # "none"
  /\ (m.strategy = "mix_audio_anchor" /\ i > 1) => m.anchor # "none"

SubmitClip ==
  \E i \in 1..Len(media.clips) :
    /\ CanSubmit(media, i)
    /\ media' = [ media EXCEPT
                    !.clips[i].status = "inflight",
                    !.clips[i].context =
                       IF media.strategy = "mix_audio_anchor" /\ i > 1
                         THEN media.anchor ELSE @,
                    !.submitted = Append(@, i) ]
    /\ UNCHANGED <<job, hitl, hitl_mode, inflight, response, music_store, console, request, job_store, lyric, landing, style_form, strategy_dir, web>>

FinishClip ==
  \E i \in 1..Len(media.clips) :
    /\ media.clips[i].status = "inflight"
    /\ media' = [ media EXCEPT !.clips[i].status = "done" ]
    /\ UNCHANGED <<job, hitl, hitl_mode, inflight, response, music_store, console, request, job_store, lyric, landing, style_form, strategy_dir, web>>

\* sequential strategies: the end of clip i is packaged as the context of
\* clip i + 1; when the summary is unclear the fallback is used (a still
\* of the last second for video_chain, the style lock alone for
\* sequential_anchor)
PackageContext ==
  \E i \in 1..(Len(media.clips) - 1), ok \in BOOLEAN :
    /\ Sequential(media.strategy)
    /\ media.clips[i].status = "done"
    /\ media.clips[i + 1].context = "none"
    /\ media' = [ media EXCEPT
                    !.clips[i + 1].context =
                       IF ok THEN "tail_of_previous"
                       ELSE IF media.strategy = "video_chain"
                         THEN "last_second_still"
                         ELSE "style_lock_only" ]
    /\ UNCHANGED <<job, hitl, hitl_mode, inflight, response, music_store, console, request, job_store, lyric, landing, style_form, strategy_dir, web>>

\* mix_audio_anchor: the anchor is taken from the end of clip 1, or the
\* remaining clips go on without an anchor
ExtractAnchor ==
  \E ok \in BOOLEAN :
    /\ media.strategy = "mix_audio_anchor"
    /\ media.clips[1].status = "done"
    /\ media.anchor = "none"
    /\ media' = [ media EXCEPT
                    !.anchor = IF ok THEN "anchor_of_clip1" ELSE "no_anchor" ]
    /\ UNCHANGED <<job, hitl, hitl_mode, inflight, response, music_store, console, request, job_store, lyric, landing, style_form, strategy_dir, web>>

\* every clip and the music are there: the clips are joined, with a
\* crossfade at every seam for parallel_stylelock
RenderMedia ==
  \E x \in CrossfadeMin..CrossfadeMax :
    /\ ~media.rendered
    /\ AllClips(media, "done")
    /\ media.music = "done"
    /\ media' = [ media EXCEPT
                    !.rendered = TRUE,
                    !.seams = [ k \in 1..(Len(media.clips) - 1) |->
                                  IF media.strategy = "parallel_stylelock"
                                    THEN x ELSE 0 ] ]
    /\ UNCHANGED <<job, hitl, hitl_mode, inflight, response, music_store, console, request, job_store, lyric, landing, style_form, strategy_dir, web>>

NextMedia ==
  \/ StartMusic
  \/ FinishMusic
  \/ SubmitClip
  \/ FinishClip
  \/ PackageContext
  \/ ExtractAnchor
  \/ RenderMedia

SpecMedia == InitMedia /\ [][NextMedia]_vars

(***************************************************************************)
(* The debug console: the page that creates a job, polls                   *)
(* /jobs/{id}/debug every two seconds and submits the HITL decision.       *)
(***************************************************************************)
\* HITL submissions one page sends
MaxHitlRequests == 2

\* every job of the console is created with this hitl_mode
DEFAULT_HITL_MODE == "required"

\* GET /jobs/{id}/debug: the job payload with the music sub-job beside it
DebugPayload(j, h) ==
  [ status |-> j.status,
    progress |-> j.progress,
    suno |-> j.artifacts.suno,
    result |-> GetJobPayload(j, h).result,
    error |-> j.error ]

\* the statuses at which pollJob stops the timer
PollIsTerminal(st) == st \in {"completed", "hitl_required", "failed"}

ShouldContinueSunoPolling(p) ==
  IF p.status \notin {"media_running", "media_done"}
    THEN FALSE
    ELSE IF p.suno = "none"
      THEN TRUE
      ELSE p.suno \notin {"stored", "store_failed", "error"}

\* renderHitlOptions: one radio per concept; the first one and the one of
\* the selected id are inserted checked, the last of them stays checked
CheckedOption(concepts, selected_id) ==
  IF Len(concepts) = 0
    THEN "none"
    ELSE IF \E i \in 1..Len(concepts) : concepts[i].concept_id = selected_id
      THEN selected_id
      ELSE concepts[1].concept_id

\* renderFlow(data): the HITL panel follows data.hitl.requires_human
RenderFlow(c, data) ==
  LET requiresHuman == data.hitl.requires_human
      concepts      == data.job.artifacts.concepts
  IN  [ c EXCEPT
          !.hitl_status = IF requiresHuman THEN "HITL Required"
                          ELSE "Auto-approved",
          !.submit_enabled = requiresHuman,
          !.last_requires_human = IF requiresHuman THEN "true" ELSE "false",
          !.options = [ i \in 1..Len(concepts) |-> concepts[i].concept_id ],
          !.checked = CheckedOption(concepts, data.hitl.selected_concept_id),
          !.radios_enabled = requiresHuman ]

\* pollJob on a good response: render, then stop the timer when the status
\* is one of the polling-terminal ones and the music is not waited for;
\* polled_status is the status of the job object this poll received
PolledConsole(c, p) ==
  LET shown == [ RenderFlow(c, p.result) EXCEPT !.polled_status = p.status ]
  IN  IF PollIsTerminal(p.status) /\ ~ShouldContinueSunoPolling(p)
        THEN [ shown EXCEPT !.timer = FALSE, !.processing = FALSE ]
        ELSE shown

\* runFlow: the job is created with the console's hitl_mode, and
\* startPolling polls once and arms the timer; when that first poll fails
\* the error is shown and no timer runs
RunFlow ==
  /\ console.job_id = "none"
  /\ ~console.processing
  /\ \E ok \in BOOLEAN :
       LET created == [ console EXCEPT !.job_id = JobId,
                                       !.processing = TRUE ]
       IN  console' =
             IF ok
               THEN [ PolledConsole(created, DebugPayload(job, hitl))
                        EXCEPT !.timer = TRUE ]
               ELSE [ created EXCEPT !.processing = FALSE ]
  /\ hitl_mode' = DEFAULT_HITL_MODE
  /\ UNCHANGED <<job, hitl, inflight, response, music_store, media, request, job_store, lyric, landing, style_form, strategy_dir, web>>

\* a tick of the poll timer
PollJob ==
  /\ console.timer
  /\ console' = PolledConsole(console, DebugPayload(job, hitl))
  /\ UNCHANGED <<job, hitl, hitl_mode, inflight, response, music_store, media, request, job_store, lyric, landing, style_form, strategy_dir, web>>

\* the user picks another radio
ChooseConcept ==
  /\ console.radios_enabled
  /\ \E i \in 1..Len(console.options) :
       /\ console.options[i] # console.checked
       /\ console' = [ console EXCEPT !.checked = console.options[i] ]
  /\ UNCHANGED <<job, hitl, hitl_mode, inflight, response, music_store, media, request, job_store, lyric, landing, style_form, strategy_dir, web>>

SubmitRejectedMutJobOnly(c) == c.job_id = "none"

\* submitHitl returns before any request when there is no job id or no
\* checked radio
SubmitRejected(c) == c.job_id = "none" \/ c.checked = "none"

\* a click on Submit HITL
SubmitHitl ==
  /\ console.submit_enabled
  /\ \/ /\ SubmitRejected(console)
        /\ console' = [ console EXCEPT
                          !.hitl_status = IF console.job_id = "none"
                                            THEN "no job_id"
                                            ELSE "concept required" ]
        /\ UNCHANGED <<job, hitl, response>>
     \/ /\ ~SubmitRejected(console)
        /\ console.requests < MaxHitlRequests
        /\ LET cid  == console.checked
               sent == [ console EXCEPT !.requests = @ + 1 ]
           IN  \/ /\ HitlAccepts(job, hitl, cid)
                  /\ LET i == CHOOSE k \in 1..2 : ConceptIds[k] = cid
                     IN  job' = Traced(
                                  [ job EXCEPT
                                      !.status = "running",
                                      !.artifacts.selected_concept =
                                         Selected(job.artifacts.concepts,
                                                  i, FALSE) ],
                                  "HITL_Pick:human")
                  /\ hitl' = [ requires_human |-> FALSE,
                               selected_concept_id |-> cid ]
                  /\ response' = Reply("hitl", cid, TRUE)
                  /\ console' =
                       [ RenderFlow(sent, GetJobPayload(job', hitl').result)
                           EXCEPT !.submit_enabled = TRUE ]
               \/ /\ ~HitlAccepts(job, hitl, cid)
                  /\ response' = Reply("hitl", cid, FALSE)
                  /\ console' = [ sent EXCEPT !.hitl_status = "HITL error",
                                              !.submit_enabled = TRUE ]
                  /\ UNCHANGED <<job, hitl>>
  /\ UNCHANGED <<hitl_mode, inflight, music_store, media, request, job_store, lyric, landing, style_form, strategy_dir, web>>

\* the backend works on the job the console created; the console is the
\* job's only client
ServerStep ==
  /\ console.job_id # "none"
  /\ \/ PickUp
     \/ CallConceptGen
     \/ ReturnConceptGen
     \/ CallQA
     \/ ReturnQA
     \/ EnterHITL
     \/ LockBlueprint
     \/ CallStyleBind
     \/ ReturnStyleBind
     \/ DispatchMedia
     \/ ClipResult
     \/ MusicCallback
     \/ MediaDone
     \/ CallRender
     \/ ReturnRender
     \/ Complete

NextConsole ==
  \/ RunFlow
  \/ PollJob
  \/ ChooseConcept
  \/ SubmitHitl
  \/ ServerStep

SpecConsole == Init /\ [][NextConsole]_vars

\* POST /jobs/{id}/cancel for the job of the console, sent by another client
CancelConsoleJob ==
  /\ console.job_id # "none"
  /\ Cancel

NextConsoleCancel ==
  \/ RunFlow
  \/ PollJob
  \/ ChooseConcept
  \/ SubmitHitl
  \/ ServerStep
  \/ CancelConsoleJob

\* the debug console with a job that may be canceled from outside
SpecConsoleCancel == Init /\ [][NextConsoleCancel]_vars

(***************************************************************************)
(* POST /jobs: the payload is validated against the input schema of the    *)
(* strategy it names before a job record is created.                       *)
(***************************************************************************)
\* jobs one run of the service creates
MaxJobs == 1

MinDurationSeconds == 30
MaxDurationSeconds == 90

\* strategies whose input schema asks for prompt and pdf_paths
PdfDriven(s) ==
  s \in {"parallel_stylelock", "mix_audio_anchor", "video_chain",
         "storyboard_keyframes"}

\* strategies whose input schema asks for safety_text
TextDriven(s) == s \in {"hybrid_overlap", "sequential_anchor"}

DurationOkMutNoMaximum(d) == d >= MinDurationSeconds

\* options.duration_seconds: integer, minimum 30, maximum 90
DurationOk(d) == d >= MinDurationSeconds /\ d <= MaxDurationSeconds

\* the payloads sent to POST /jobs: strings are absent, empty or a text,
\* pdf_paths is absent (-1) or has that many entries, duration_seconds is
\* absent (-1) or an integer, and each object may carry a property its
\* schema does not name
Payloads ==
  [ strategy : Strategies \cup {"unknown_strategy"},
    prompt : {"absent", "", "text"},
    safety_text : {"absent", "", "text"},
    pdf_paths : {-1, 0, 1},
    duration_seconds : {-1, 29, 30, 90, 91},
    extra_top : BOOLEAN,
    extra_options : BOOLEAN,
    extra_attachments : BOOLEAN ]

\* the closed schema of the strategy: required properties present and
\* well-formed, nothing the schema does not name
ValidPayload(p) ==
  /\ p.strategy \in Strategies
  /\ ~p.extra_top
  /\ ~p.extra_options
  /\ ~p.extra_attachments
  /\ DurationOk(p.duration_seconds)
  /\ PdfDriven(p.strategy)
       => /\ p.prompt = "text"
          /\ p.pdf_paths >= 1
          /\ p.safety_text = "absent"
  /\ TextDriven(p.strategy)
       => /\ p.safety_text = "text"
          /\ p.prompt = "absent"
          /\ p.pdf_paths = -1

NewJobId(store) == "job" \o ToString(Cardinality(store) + 1)

InitCreate ==
  /\ job = NewJob
  /\ hitl = NoHitl
  /\ hitl_mode = "required"
  /\ inflight = "none"
  /\ response = [ op |-> "none", arg |-> "none", ok |-> TRUE ]
  /\ music_store = [ tasks |-> {}, tracks |-> {}, objects |-> {} ]
  /\ media = NoMedia
  /\ console = NoConsole
  /\ web = NoWeb
  /\ strategy_dir = ShippedStrategyDir
  /\ style_form = NoStyleForm
  /\ landing = NoLanding
  /\ lyric = NoLyric
  /\ request \in Payloads
  /\ job_store = {}

\* a client sends the next payload
SendJob ==
  /\ request = NoRequest
  /\ request' \in Payloads
  /\ UNCHANGED <<job, hitl, hitl_mode, inflight, response, music_store, media, console, job_store, lyric, landing, style_form, strategy_dir, web>>

\* POST /jobs: a valid payload creates a queued job and returns its id, any
\* other one is answered with an error before anything is stored
PostJobs ==
  /\ request # NoRequest
  /\ \/ /\ ValidPayload(request)
        /\ Cardinality(job_store) < MaxJobs
        /\ job_store' = job_store \cup
                          { StoredJob(NewJobId(job_store), request.strategy) }
        /\ response' = Reply("create", NewJobId(job_store), TRUE)
     \/ /\ ~ValidPayload(request)
        /\ job_store' = job_store
        /\ response' = Reply("create", "invalid_payload", FALSE)
  /\ request' = NoRequest
  /\ UNCHANGED <<job, hitl, hitl_mode, inflight, music_store, media, console, lyric, landing, style_form, strategy_dir, web>>

NextCreate ==
  \/ SendJob
  \/ PostJobs

SpecCreate == InitCreate /\ [][NextCreate]_vars

(***************************************************************************)
(* The lyric-selection screen: it polls /job_status until the two lyric    *)
(* versions are there, posts the chosen version to /post_version and polls *)
(* again until the video is done.  pollingRef holds the one interval the   *)
(* page knows of; the fetch of a tick returns later, in a step of its own. *)
(***************************************************************************)
\* fetches of one kind that are in flight together
MaxFetches == 2

\* decisions one visit of the screen posts
MaxPosts == 2

\* the screen after its mount effect: the job id is read and the lyrics
\* polling runs
MountedLyric ==
  [ NoLyric EXCEPT !.page = "lyricselection", !.polling = "lyrics" ]

InitLyric ==
  /\ job = NewJob
  /\ hitl = NoHitl
  /\ hitl_mode = "required"
  /\ inflight = "none"
  /\ response = [ op |-> "none", arg |-> "none", ok |-> TRUE ]
  /\ music_store = [ tasks |-> {}, tracks |-> {}, objects |-> {} ]
  /\ media = NoMedia
  /\ console = NoConsole
  /\ web = NoWeb
  /\ strategy_dir = ShippedStrategyDir
  /\ style_form = NoStyleForm
  /\ landing = NoLanding
  /\ request = NoRequest
  /\ job_store = { StoredJob(JobId, "parallel_stylelock") }
  /\ lyric = MountedLyric

OtherThanLyric ==
  <<job, hitl, hitl_mode, inflight, response, music_store, media, console, request, job_store, landing, style_form, strategy_dir, web>>

\* stopPolling: the interval pollingRef holds is cleared, whichever it is
StopPolling(l) == [ l EXCEPT !.polling = "none" ]

\* what a fetch of /job_status may return: the status of the job, or a
\* failure of the request
FetchResults(l) == { l.status, "fetch_failed" }

\* the job behind /job_status goes on: the lyrics get done, the video gets
\* done once a version was posted, or the generation fails
JobProgress ==
  /\ lyric.page = "lyricselection"
  /\ \E next \in {"lyrics_done", "video_done", "error"} :
       /\ \/ lyric.status = "lyrics_processing" /\ next \in {"lyrics_done", "error"}
          \/ lyric.status = "video_processing" /\ next \in {"video_done", "error"}
       /\ lyric' = [ lyric EXCEPT !.status = next ]
  /\ UNCHANGED OtherThanLyric

\* a tick of the lyrics interval starts a fetch
LyricsTick ==
  /\ lyric.page = "lyricselection"
  /\ lyric.polling = "lyrics"
  /\ lyric.lyrics_fetches < MaxFetches
  /\ lyric' = [ lyric EXCEPT !.lyrics_fetches = @ + 1 ]
  /\ UNCHANGED OtherThanLyric

\* the fetch of a lyrics tick returns
LyricsReturn ==
  /\ lyric.page = "lyricselection"
  /\ lyric.lyrics_fetches > 0
  /\ \E r \in FetchResults(lyric) :
       LET back == [ lyric EXCEPT !.lyrics_fetches = @ - 1 ]
       IN  lyric' =
             IF r = "lyrics_done"
               THEN StopPolling([ back EXCEPT !.options = TRUE ])
               ELSE IF r \in {"error", "fetch_failed"}
                 THEN [ StopPolling(back) EXCEPT !.errorMsg = "lyrics" ]
                 ELSE back
  /\ UNCHANGED OtherThanLyric

\* a click on one of the two versions
SelectVersion ==
  /\ lyric.page = "lyricselection"
  /\ lyric.options
  /\ \E v \in 1..2 :
       lyric' = IF lyric.isSubmitting THEN lyric
                ELSE [ lyric EXCEPT !.selected = v ]
  /\ UNCHANGED OtherThanLyric

CanCompleteMutIgnoreSubmitting(l) == l.selected # 0

CanComplete(l) == l.selected # 0 /\ ~l.isSubmitting

\* handleComplete up to its fetch: the decision is on its way
HandleComplete ==
  /\ lyric.page = "lyricselection"
  /\ CanComplete(lyric)
  /\ Len(lyric.posted) < MaxPosts
  /\ lyric' = [ lyric EXCEPT !.isSubmitting = TRUE,
                             !.errorMsg = "none",
                             !.post = lyric.selected,
                             !.posted = Append(@, lyric.selected) ]
  /\ UNCHANGED OtherThanLyric

\* startVideoPolling: the interval in pollingRef is cleared and the video
\* interval takes its place
StartVideoPolling(l) == [ StopPolling(l) EXCEPT !.polling = "video" ]

\* the response of /post_version arrives
PostReturn ==
  /\ lyric.page = "lyricselection"
  /\ lyric.post # 0
  /\ \E ok \in BOOLEAN :
       LET back == [ lyric EXCEPT !.post = 0 ]
       IN  lyric' =
             IF ok
               THEN [ StartVideoPolling(back) EXCEPT
                        !.status = IF @ = "lyrics_done"
                                     THEN "video_processing" ELSE @ ]
               ELSE [ back EXCEPT !.errorMsg = "post",
                                  !.isSubmitting = FALSE ]
  /\ UNCHANGED OtherThanLyric

\* a tick of the video interval starts a fetch
VideoTick ==
  /\ lyric.page = "lyricselection"
  /\ lyric.polling = "video"
  /\ lyric.video_fetches < MaxFetches
  /\ lyric' = [ lyric EXCEPT !.video_fetches = @ + 1 ]
  /\ UNCHANGED OtherThanLyric

\* the fetch of a video tick returns
VideoReturn ==
  /\ lyric.page = "lyricselection"
  /\ lyric.video_fetches > 0
  /\ \E r \in FetchResults(lyric) :
       LET back == [ lyric EXCEPT !.video_fetches = @ - 1 ]
       IN  lyric' =
             IF r = "video_done"
               THEN [ StopPolling(back) EXCEPT !.page = "result" ]
               ELSE IF r \in {"error", "fetch_failed"}
                 THEN [ StopPolling(back) EXCEPT !.isSubmitting = FALSE,
                                                 !.errorMsg = "video" ]
                 ELSE back
  /\ UNCHANGED OtherThanLyric

\* handleBack: leaving the screen runs the cleanup of the mount effect
HandleBack ==
  /\ lyric.page = "lyricselection"
  /\ ~lyric.isSubmitting
  /\ lyric' = [ StopPolling(lyric) EXCEPT !.page = "left" ]
  /\ UNCHANGED OtherThanLyric

NextLyric ==
  \/ JobProgress
  \/ LyricsTick
  \/ LyricsReturn
  \/ SelectVersion
  \/ HandleComplete
  \/ PostReturn
  \/ VideoTick
  \/ VideoReturn
  \/ HandleBack

SpecLyric == InitLyric /\ [][NextLyric]_vars

(***************************************************************************)
(* The two intake forms: the landing form (VideoGeneratorForm) and the     *)
(* form of the debug console.                                              *)
(***************************************************************************)
videoVibes == {"minimal", "corporate", "modern", "cute"}

musicGenres ==
  {"hiphop", "jazz", "trot", "rnb", "ballad", "rock", "dance", "kpop"}

\* the style checkboxes of the debug console
styleInputs == {"minimal", "corporated", "modern", "cute"}

\* the landing form as it mounts
MountedLanding == [ NoLanding EXCEPT !.page = "landing" ]

InitForms ==
  /\ job = NewJob
  /\ hitl = NoHitl
  /\ hitl_mode = "required"
  /\ inflight = "none"
  /\ response = [ op |-> "none", arg |-> "none", ok |-> TRUE ]
  /\ music_store = [ tasks |-> {}, tracks |-> {}, objects |-> {} ]
  /\ media = NoMedia
  /\ console = NoConsole
  /\ web = NoWeb
  /\ strategy_dir = ShippedStrategyDir
  /\ style_form = NoStyleForm
  /\ landing = MountedLanding
  /\ request = NoRequest
  /\ job_store = {}
  /\ lyric = NoLyric

OtherThanLanding ==
  <<job, hitl, hitl_mode, inflight, response, music_store, media, console, request, job_store, lyric, style_form, strategy_dir, web>>

OtherThanStyleForm ==
  <<job, hitl, hitl_mode, inflight, response, music_store, media, console, request, job_store, lyric, landing, strategy_dir, web>>

Includes(seq, x) == \E i \in 1..Len(seq) : seq[i] = x

Without(seq, x) == SelectSeq(seq, LAMBDA id : id # x)

\* the update of selectedStyles without the eviction of the oldest vibe
HandleStyleToggleMutNoEviction(prev, styleId) ==
  IF Includes(prev, styleId) THEN Without(prev, styleId)
  ELSE Append(prev, styleId)

\* handleStyleToggle: a selected vibe is removed; a third vibe pushes the
\* oldest one out; otherwise the vibe is appended
HandleStyleToggle(prev, styleId) ==
  IF Includes(prev, styleId) THEN Without(prev, styleId)
  ELSE IF Len(prev) >= 2 THEN Append(Tail(prev), styleId)
  ELSE Append(prev, styleId)

\* handleGenreSelect: the selected genre is dropped, another one replaces it
HandleGenreSelect(prev, genre) == IF prev = genre THEN "none" ELSE genre

\* a click on a vibe button of the landing form
StyleToggle ==
  /\ landing.page = "landing"
  /\ \E styleId \in videoVibes :
       landing' = [ landing EXCEPT
                      !.selectedStyles = HandleStyleToggle(@, styleId) ]
  /\ UNCHANGED OtherThanLanding

\* a click on a genre button of the landing form
GenreSelect ==
  /\ landing.page = "landing"
  /\ \E genre \in musicGenres :
       landing' = [ landing EXCEPT
                      !.selectedGenres = HandleGenreSelect(@, genre) ]
  /\ UNCHANGED OtherThanLanding

\* the guidelines text is typed or erased
SetGuidelines ==
  /\ landing.page = "landing"
  /\ landing' = [ landing EXCEPT !.guidelines = ~@ ]
  /\ UNCHANGED OtherThanLanding

\* getSelectedStyles after the browser toggled the checkbox and the change
\* handler ran: a third checked box is unchecked again
StyleChange(checked, input) ==
  LET toggled == IF input \in checked THEN checked \ {input}
                 ELSE checked \cup {input}
  IN  IF Cardinality(toggled) > 2 THEN toggled \ {input} ELSE toggled

\* a click on a style checkbox of the debug console
StyleInputChange ==
  /\ \E input \in styleInputs :
       style_form' = [ style_form EXCEPT !.styles = StyleChange(@, input) ]
  /\ UNCHANGED OtherThanStyleForm

\* another option of the genre select of the debug console is chosen
GenreInputChange ==
  /\ \E genre \in musicGenres :
       style_form' = [ style_form EXCEPT !.genre = genre ]
  /\ UNCHANGED OtherThanStyleForm

NextForms ==
  \/ StyleToggle
  \/ GenreSelect
  \/ SetGuidelines
  \/ StyleInputChange
  \/ GenreInputChange

SpecForms == InitForms /\ [][NextForms]_vars

\* the Generate clicks one visit of the landing form makes
MaxClicks == 2

\* isFormValid: guidelines, at least one vibe and a genre
IsFormValid(l) ==
  /\ l.guidelines
  /\ Len(l.selectedStyles) > 0
  /\ l.selectedGenres # "none"

\* router.push("/lyricselection"): the form unmounts and its cleanup clears
\* the timer timeoutRef names; a push after the form is gone navigates
\* again
Navigate(l) ==
  [ l EXCEPT !.page = "lyricselection",
             !.navigations = @ + 1,
             !.timers = IF l.page = "landing" THEN @ \ {l.timeoutRef} ELSE @ ]

\* handleGenerate up to its await: isGenerating is set, the 2 s timer that
\* resets it is started and POST /post_job is sent; click k names both
HandleGenerate ==
  /\ landing.page = "landing"
  /\ IsFormValid(landing)
  /\ ~landing.isGenerating
  /\ landing.clicks < MaxClicks
  /\ landing' = [ landing EXCEPT !.isGenerating = TRUE,
                                 !.clicks = @ + 1,
                                 !.resets = @ \cup {landing.clicks + 1},
                                 !.posts = @ \cup {landing.clicks + 1} ]
  /\ UNCHANGED OtherThanLanding

\* the 2 s timer of click k fires: isGenerating is reset (a state update of
\* an unmounted form is dropped)
GenerateReset ==
  /\ \E k \in landing.resets :
       landing' = [ landing EXCEPT
                      !.resets = @ \ {k},
                      !.isGenerating = IF landing.page = "landing"
                                         THEN FALSE ELSE @ ]
  /\ UNCHANGED OtherThanLanding

\* POST /post_job of click k returns: on success the 10 s navigation timer
\* is started and timeoutRef names it; on failure isGenerating is reset
\* and the router navigates at once
PostJobReturn ==
  /\ \E k \in landing.posts, ok \in BOOLEAN :
       landing' =
         IF ok
           THEN [ landing EXCEPT !.posts = @ \ {k},
                                 !.timers = @ \cup {k},
                                 !.timeoutRef = k ]
           ELSE Navigate([ landing EXCEPT
                             !.posts = @ \ {k},
                             !.isGenerating = IF landing.page = "landing"
                                                THEN FALSE ELSE @ ])
  /\ UNCHANGED OtherThanLanding

\* the navigation timer of click k fires, 10 s after the POST returned and
\* so after the 2 s timer of the same click
NavigationTimer ==
  /\ \E k \in landing.timers \ landing.resets :
       landing' = Navigate([ landing EXCEPT !.timers = @ \ {k} ])
  /\ UNCHANGED OtherThanLanding

NextLanding ==
  \/ StyleToggle
  \/ GenreSelect
  \/ SetGuidelines
  \/ HandleGenerate
  \/ GenerateReset
  \/ PostJobReturn
  \/ NavigationTimer

SpecLanding == InitForms /\ [][NextLanding]_vars

(***************************************************************************)
(* The strategy directory and GET /strategies.                             *)
(***************************************************************************)
\* the file names that may be put into the directory or taken out of it
FileNames ==
  { <<"README", "md">>, <<"origin", "md">>, <<"parallel_stylelock", "md">>,
    <<"video_chain", "md">>, <<"video_chain", "txt">>, <<"notes">>,
    <<"hybrid_overlap", "md", "bak">> }

InitStrategies ==
  /\ job = NewJob
  /\ hitl = NoHitl
  /\ hitl_mode = "required"
  /\ inflight = "none"
  /\ response = [ op |-> "none", arg |-> "none", ok |-> TRUE ]
  /\ music_store = [ tasks |-> {}, tracks |-> {}, objects |-> {} ]
  /\ media = NoMedia
  /\ console = NoConsole
  /\ web = NoWeb
  /\ style_form = NoStyleForm
  /\ landing = NoLanding
  /\ request = NoRequest
  /\ job_store = {}
  /\ lyric = NoLyric
  /\ strategy_dir = ShippedStrategyDir

OtherThanStrategyDir ==
  <<job, hitl, hitl_mode, inflight, response, music_store, media, console, request, job_store, lyric, landing, style_form, web>>

\* the extension of a file name, "" when it has none
Extension(name) == IF Len(name) > 1 THEN name[Len(name)] ELSE ""

\* the file name without its extension
Stem(name) == IF Len(name) > 1 THEN SubSeq(name, 1, Len(name) - 1) ELSE name

\* the listing with the README of the directory among the strategies
ListStrategiesMutWithReadme(files) ==
  { Stem(name) : name \in { f \in files : Extension(f) = "md" } }

\* the strategy list: one id per .md file, the README left out
ListStrategies(files) ==
  { Stem(name) : name \in { f \in files : /\ Extension(f) = "md"
                                           /\ Stem(f) # <<"README">> } }

\* a file is put into the strategy directory
AddFile ==
  /\ \E name \in FileNames \ strategy_dir.files :
       strategy_dir' = [ strategy_dir EXCEPT !.files = @ \cup {name} ]
  /\ UNCHANGED OtherThanStrategyDir

\* a file is taken out of the strategy directory
RemoveFile ==
  /\ \E name \in strategy_dir.files :
       strategy_dir' = [ strategy_dir EXCEPT !.files = @ \ {name} ]
  /\ UNCHANGED OtherThanStrategyDir

\* GET /strategies
GetStrategies ==
  /\ strategy_dir' = [ strategy_dir EXCEPT
                         !.listing = ListStrategies(strategy_dir.files) ]
  /\ UNCHANGED OtherThanStrategyDir

NextStrategies == AddFile \/ RemoveFile \/ GetStrategies

SpecStrategies == InitStrategies /\ [][NextStrategies]_vars

(***************************************************************************)
(* The primary web client: job form, "load status" button and pollJob.     *)
(* A timer is named by the number of the pollJob call that installed it.   *)
(***************************************************************************)
\* the pollJob calls one session makes
MaxPollCalls == 3

OtherThanWeb ==
  <<job, hitl, hitl_mode, inflight, response, music_store, media, console, request, job_store, lyric, landing, style_form, strategy_dir>>

\* what a tick learns from fetchJob: the job goes on, the job is in a
\* terminal status, or the request failed
TickResults == {"running", "terminal", "error"}

\* clearInterval(pollTimer): the timer the variable names stops, if it runs
ClearInterval(w) == [ w EXCEPT !.live = @ \ {w.pollTimer} ]

\* pollJob up to its await: the timer in pollTimer is cleared and the first
\* tick of this call starts its fetch
StartPollJob(w) ==
  [ ClearInterval(w) EXCEPT !.started = @ + 1,
                            !.calls = @ \cup {w.started + 1} ]

\* the end of a tick: a terminal status or a failed fetch clears the timer
\* pollTimer names at that moment
EndTick(w, result) ==
  IF result \in {"terminal", "error"} THEN ClearInterval(w) ELSE w

\* the job id is typed into the job id field
TypeJobId ==
  /\ ~web.jobIdInput
  /\ web' = [ web EXCEPT !.jobIdInput = TRUE ]
  /\ UNCHANGED OtherThanWeb

\* the job form is submitted: POST /jobs is sent
SubmitForm ==
  /\ web.started + web.creating < MaxPollCalls
  /\ web' = [ web EXCEPT !.creating = @ + 1 ]
  /\ UNCHANGED OtherThanWeb

\* POST /jobs returns: on success the id goes to the job id field and
\* pollJob is called; on failure the notice shows the error
JobCreated ==
  /\ web.creating > 0
  /\ \E ok \in BOOLEAN :
       web' = IF ok
                THEN [ StartPollJob(web) EXCEPT !.creating = @ - 1,
                                                 !.jobIdInput = TRUE ]
                ELSE [ web EXCEPT !.creating = @ - 1 ]
  /\ UNCHANGED OtherThanWeb

\* a click on "load status" with a job id in the field
LoadStatus ==
  /\ web.jobIdInput
  /\ web.started + web.creating < MaxPollCalls
  /\ web' = StartPollJob(web)
  /\ UNCHANGED OtherThanWeb

\* the awaited first tick of call k ends and pollJob goes on: setInterval
\* installs the timer of this call and pollTimer names it
FirstTick ==
  /\ \E k \in web.calls, result \in TickResults :
       web' = [ EndTick(web, result) EXCEPT !.calls = @ \ {k},
                                            !.live = @ \cup {k},
                                            !.pollTimer = k ]
  /\ UNCHANGED OtherThanWeb

\* a live timer fires: its tick starts a fetch
IntervalTick ==
  /\ web.live # {}
  /\ web.ticks < MaxFetches
  /\ web' = [ web EXCEPT !.ticks = @ + 1 ]
  /\ UNCHANGED OtherThanWeb

\* the fetch of an interval tick returns
IntervalTickReturn ==
  /\ web.ticks > 0
  /\ \E result \in TickResults :
       web' = [ EndTick(web, result) EXCEPT !.ticks = @ - 1 ]
  /\ UNCHANGED OtherThanWeb

NextWeb ==
  \/ TypeJobId
  \/ SubmitForm
  \/ JobCreated
  \/ LoadStatus
  \/ FirstTick
  \/ IntervalTick
  \/ IntervalTickReturn

SpecWeb == Init /\ [][NextWeb]_vars

(***************************************************************************)
(* Properties.                                                             *)
(***************************************************************************)
Count(seq, x) == Cardinality({ i \in 1..Len(seq) : seq[i] = x })

\* position of the first occurrence of x in seq, 0 when absent
Pos(seq, x) ==
  LET at == { i \in 1..Len(seq) : seq[i] = x }
  IN  IF at = {} THEN 0 ELSE CHOOSE i \in at : \A k \in at : i <= k

Reached(s) == StateIndex(job.state) >= StateIndex(s)

\* the edges of the Job Status Transition Rules
DocumentedEdges ==
  { <<"queued", "running">>, <<"queued", "canceled">>,
    <<"running", "completed">>, <<"running", "failed">>,
    <<"running", "canceled">> }

\* hitl_required, media_running and media_done are sub-statuses of running
Coarse(st) ==
  IF st \in {"hitl_required", "media_running", "media_done"}
    THEN "running" ELSE st

C2_TerminalFrozen ==
  [][ job.status \in {"completed", "failed", "canceled"}
        => job' = job /\ hitl' = hitl ]_vars

\* a failed job whose music callback and clip results are still to arrive
C2_Witness ==
  /\ job.status = "failed"
  /\ job.artifacts.suno = "queued"
  /\ \E i \in 1..Len(job.artifacts.video_jobs) :
       job.artifacts.video_jobs[i].status = "queued"

\* C3: the retry counter is 0 or 1, it is incremented only in state QA on a
\* failing QA result, and CONCEPT_GEN occurs at most twice in state_history,
\* a second occurrence directly after QA.
C3_BoundedRetry ==
  /\ [](/\ job.retry_count \in {0, 1}
        /\ Count(job.state_history, "CONCEPT_GEN") <= 2
        /\ Count(job.state_history, "CONCEPT_GEN") <= job.retry_count + 1
        /\ \A i \in 3..Len(job.state_history) :
             job.state_history[i] = "CONCEPT_GEN"
               => job.state_history[i - 1] = "QA")
  /\ [][ job'.retry_count # job.retry_count
           => /\ job.state = "QA"
              /\ \E i \in 1..2 : job.artifacts.qa_results[i].result = "fail"
              /\ job'.retry_count = job.retry_count + 1 ]_vars

\* the retry was taken and its concepts are confirmed
C3_Witness ==
  /\ job.retry_count = 1
  /\ Count(job.state_history, "CONCEPT_GEN") = 2

\* the errors a failed job may carry: none of them is a QA verdict
OperationalErrors ==
  { "step_error:ConceptGen", "step_error:QA_Scorer",
    "step_error:StyleBinder", "provider_error:SoraVideo",
    "render_error:timing_mismatch" }

\* C4: a failing QA verdict never fails the job: a failed job carries an
\* operational error, and from state QA with a failing verdict on the
\* retried concepts the pipeline moves on to HITL only, not failed, keeping
\* the concepts and preselecting the one with the highest score.
C4_QAFailNeverFailsJob ==
  /\ [](job.status = "failed" => job.error \in OperationalErrors)
  /\ [][ ( /\ job.state = "QA"
           /\ job.retry_count = 1
           /\ job.artifacts.concepts[1].gen = 2
           /\ \E i \in 1..2 : job.artifacts.qa_results[i].result = "fail"
           /\ job'.state # job.state )
         => /\ job'.state = "HITL"
            /\ job'.status # "failed"
            /\ job'.artifacts.concepts = job.artifacts.concepts
            /\ job'.artifacts.qa_results = job.artifacts.qa_results
            /\ \A i \in 1..2 :
                 job.artifacts.qa_results[i].score
                   <= job.artifacts.qa_results[
                        Pos(ConceptIds,
                            job'.artifacts.selected_concept[1].concept_id)
                      ].score ]_vars

\* the fallback was taken: HITL reached with the retried concepts failing
C4_Witness ==
  /\ job.state = "HITL"
  /\ job.retry_count = 1
  /\ \A i \in 1..2 : job.artifacts.qa_results[i].result = "fail"
  /\ job.status # "failed"

\* C5: HITL (and every later state) is never reached with a failing QA
\* verdict while the retry counter is 0; when the retry was taken, the
\* concepts at HITL are the two concepts of the retried pair.
C5_RetryBeforeHITL ==
  /\ ( Reached("HITL")
       /\ \E i \in 1..2 : job.artifacts.qa_results[i].result = "fail" )
     => ( job.retry_count = 1
          /\ Count(job.state_history, "CONCEPT_GEN") = 2 )
  /\ Reached("HITL")
     => /\ Len(job.artifacts.concepts) = 2
        /\ Len(job.artifacts.qa_results) = 2
        /\ \A i \in 1..2 :
             job.artifacts.concepts[i].gen = job.retry_count + 1
        /\ job.artifacts.concepts[1].concept_id
             # job.artifacts.concepts[2].concept_id

\* both concepts failed twice and the job waits at the gate with the
\* retried pair
C5_Witness ==
  /\ job.state = "HITL"
  /\ job.status = "hitl_required"
  /\ job.retry_count = 1
  /\ \A i \in 1..2 : job.artifacts.qa_results[i].result = "fail"
  /\ job.artifacts.concepts[1].gen = 2

\* C6: with hitl_mode = skip the job never has status hitl_required and
\* never asks for a human, and the selected concept is the candidate of the
\* final pair with the higher QA score, the first one on equal scores.
C6_SkipAutoSelect ==
  hitl_mode = "skip"
    => /\ job.status # "hitl_required"
       /\ ~hitl.requires_human
       /\ Reached("HITL")
            => LET qa == job.artifacts.qa_results
                   want == IF qa[1].score >= qa[2].score THEN 1 ELSE 2
               IN  /\ hitl.selected_concept_id = ConceptIds[want]
                   /\ job.artifacts.selected_concept
                        = << [ concept_id |-> ConceptIds[want],
                               gen |-> job.retry_count + 1,
                               edited |-> FALSE ] >>

\* the fixture: after the retry A scores 0.4, B scores 0.6, B is selected
C6_Witness ==
  /\ hitl_mode = "skip"
  /\ job.retry_count = 1
  /\ Reached("LOCK_BLUEPRINT_CORE")
  /\ job.artifacts.qa_results[1].score = 4
  /\ job.artifacts.qa_results[2].score = 6
  /\ hitl.selected_concept_id = "c2"

\* a decision is recorded: a concept is selected and no human is awaited
Decided == ~hitl.requires_human /\ hitl.selected_concept_id # "none"

\* C7: once a decision is recorded, no step changes the recorded concept
\* id, the selected concept or the blueprint, every later HITL request is
\* rejected, and the blueprint is the one assembled from the selection.
C7_HitlBinding ==
  /\ []( job.artifacts.blueprint # <<>>
           => /\ Decided
              /\ job.artifacts.blueprint[1].source
                   = job.artifacts.selected_concept[1]
              /\ job.artifacts.blueprint[1].source.concept_id
                   = hitl.selected_concept_id )
  /\ [][ Decided
           => /\ hitl' = hitl
              /\ job'.artifacts.selected_concept
                   = job.artifacts.selected_concept
              /\ job.artifacts.blueprint # <<>>
                   => job'.artifacts.blueprint = job.artifacts.blueprint
              /\ (response' # response /\ response'.op = "hitl")
                   => ~response'.ok ]_vars

\* a second request naming the other concept was rejected after the
\* blueprint was locked from the first decision
C7_Witness ==
  /\ response = Reply("hitl", "c2", FALSE)
  /\ hitl = [ requires_human |-> FALSE, selected_concept_id |-> "c1" ]
  /\ "HITL_Pick:human" \in { job.trace[i] : i \in 1..Len(job.trace) }
  /\ job.artifacts.blueprint # <<>>
  /\ job.artifacts.blueprint[1].source.concept_id = "c1"

TraceSteps == { job.trace[i] : i \in 1..Len(job.trace) }

\* C8: with hitl_mode = required, a job at the gate without a decision has
\* status hitl_required, and LOCK_BLUEPRINT_CORE or a later state is
\* reached only with a human decision in the trace that names one of the
\* job's two concepts.
C8_HumanApprovalMandatory ==
  hitl_mode = "required"
    => /\ (job.state = "HITL" /\ ~("HITL_Pick:human" \in TraceSteps))
            => /\ job.status = "hitl_required"
               /\ hitl.requires_human
       /\ ~("HITL_Pick:auto" \in TraceSteps)
       /\ Reached("LOCK_BLUEPRINT_CORE")
            => /\ "HITL_Pick:human" \in TraceSteps
               /\ ~hitl.requires_human
               /\ \E i \in 1..2 :
                    job.artifacts.concepts[i].concept_id
                      = hitl.selected_concept_id

\* the blueprint was locked after a human decision
C8_Witness ==
  /\ hitl_mode = "required"
  /\ job.state = "LOCK_BLUEPRINT_CORE"
  /\ "HITL_Pick:human" \in TraceSteps

StageOrder ==
  << "LOCK_BLUEPRINT_CORE", "STYLE_BIND", "PARALLEL_MEDIA_GEN", "RENDER" >>

\* C9: in state_history each of blueprint lock, style bind, media dispatch
\* and render occurs only after the stage before it, and the artifacts
\* agree: a style only with a blueprint, media jobs only with a style, a
\* render call only with every media job dispatched.
C9_StageOrder ==
  /\ \A k \in 2..Len(StageOrder) :
       Pos(job.state_history, StageOrder[k]) > 0
         => /\ Pos(job.state_history, StageOrder[k - 1]) > 0
            /\ Pos(job.state_history, StageOrder[k - 1])
                 < Pos(job.state_history, StageOrder[k])
  /\ job.artifacts.style # "none" => job.artifacts.blueprint # <<>>
  /\ (job.artifacts.video_jobs # <<>> \/ job.artifacts.suno # "none")
       => /\ job.artifacts.style # "none"
          /\ Pos(job.state_history, "STYLE_BIND") > 0
  /\ (inflight = "Renderer" \/ Reached("RENDER"))
       => /\ Len(job.artifacts.video_jobs) = job.artifacts.blueprint[1].scenes
          /\ job.artifacts.suno # "none"
          /\ Pos(job.state_history, "PARALLEL_MEDIA_GEN") > 0

\* the render call was issued after all four stages ran in order
C9_Witness ==
  /\ job.state = "RENDER"
  /\ job.artifacts.style # "none"
  /\ Len(job.artifacts.video_jobs) = NumClips

\* C10: once the blueprint is present it never changes, and once the style
\* is bound it never changes, in any later step of the job.
C10_LockedImmutable ==
  [][ /\ job.artifacts.blueprint # <<>>
        => job'.artifacts.blueprint = job.artifacts.blueprint
      /\ job.artifacts.style # "none"
        => job'.artifacts.style = job.artifacts.style ]_vars

\* blueprint and style are locked and a clip was retried and replaced by
\* its fallback
C10_Witness ==
  /\ job.artifacts.blueprint # <<>>
  /\ job.artifacts.style # "none"
  /\ \E i \in 1..Len(job.artifacts.video_jobs) :
       job.artifacts.video_jobs[i].fallback
  /\ job.status = "completed"

\* a step back in the state order between consecutive history entries
Descents(h) ==
  { i \in 1..(Len(h) - 1) : StateIndex(h[i + 1]) < StateIndex(h[i]) }

CancelStep == response'.op = "cancel" /\ response' # response

\* C13: a cancel request for a queued job is accepted and takes the job
\* directly to canceled, changing nothing but the status; a queued job
\* leaves queued only to running or canceled; and a canceled job never has
\* status running (or any other status) afterwards, whichever of the cancel
\* and the pick-up comes first.
C13_CancelQueued ==
  [][ /\ (job.status = "queued" /\ CancelStep)
        => /\ response'.ok
           /\ job' = [ job EXCEPT !.status = "canceled" ]
      /\ (job.status = "queued" /\ job'.status # "queued")
        => job'.status \in {"running", "canceled"}
      /\ job.status = "canceled" => job'.status = "canceled" ]_vars

\* the cancel was accepted before any pipeline step had been started
C13_Witness ==
  /\ job.status = "canceled"
  /\ response = Reply("cancel", "none", TRUE)
  /\ job.state = "INIT"
  /\ job.trace = <<>>
  /\ inflight = "none"

IsPrefix(s, t) == Len(s) <= Len(t) /\ SubSeq(t, 1, Len(s)) = s

\* C14: a cancel request for a running job is accepted and marks it
\* canceled without touching anything else, a call in flight included;
\* from then on no pipeline step is started (no call is issued) and the
\* result of a call that was in flight changes nothing of the job: state,
\* state_history, artifacts and trace stay as they were at the cancel.
\* The trace only ever grows at its end, so the trace up to the cancel is
\* a prefix of every later trace.
C14_CancelRunning ==
  [][ /\ (job.status = "running" /\ CancelStep)
        => /\ response'.ok
           /\ job' = [ job EXCEPT !.status = "canceled" ]
           /\ inflight' = inflight
      /\ job.status = "canceled"
        => /\ job' = job
           /\ hitl' = hitl
           /\ inflight' \in {inflight, "none"}
      /\ IsPrefix(job.trace, job'.trace) ]_vars

\* the cancel arrived while the retry call to ConceptGen was in flight;
\* the call has returned since and its concepts were dropped
C14_Witness ==
  /\ job.status = "canceled"
  /\ job.retry_count = 1
  /\ job.state = "QA"
  /\ job.artifacts.concepts[1].gen = 1
  /\ inflight = "none"

\* C15: a cancel request for a job whose status is neither queued nor
\* running (completed, failed, canceled, hitl_required, media_running,
\* media_done) is rejected, and the job record, the HITL decision and the
\* call in flight are left exactly as they were.
C15_CancelRejected ==
  [][ (CancelStep /\ job.status \notin {"queued", "running"})
        => /\ ~response'.ok
           /\ job' = job
           /\ hitl' = hitl
           /\ inflight' = inflight ]_vars

\* a cancel was rejected while the job waits at the HITL gate
C15_Witness ==
  /\ response = Reply("cancel", "none", FALSE)
  /\ job.status = "hitl_required"
  /\ hitl.requires_human

\* a cancel was rejected while the media jobs run
C15_WitnessMedia ==
  /\ response = Reply("cancel", "none", FALSE)
  /\ job.status = "media_running"

\* a step that answers a read of the job
GetStep == response'.op = "get" /\ response' # response

\* the orchestrator has finished no step of the job and reported no error
NoWorkYet(j) ==
  j.trace = <<>> /\ j.state_history = <<"INIT">> /\ j.error = "none"

C16_WitnessRunning ==
  /\ response = Reply("get", "none", TRUE)
  /\ job.status = "running"
  /\ NoWorkYet(job)

KeysOfTracks(ms) ==
  UNION { { ObjectKey(t.job_id, t.task_id, d[2], e) :
              t \in { u \in ms.tasks : u.task_id = d[1] }, e \in Exts } :
          d \in ms.tracks }

\* C18: the bucket holds exactly the keys suno/{job_id}/{task_id}/{track_id}
\* with .mp3 and .jpg of the tracks received, two objects per distinct
\* (job, task, track), so no two distinct triples share a key; delivering a
\* callback whose tracks were received before leaves the set of stored keys
\* as it was after the first delivery, and no delivery removes a key.
C18_KeysIdempotentInjective ==
  /\ [](/\ music_store.objects = KeysOfTracks(music_store)
        /\ Cardinality(music_store.objects)
             = Cardinality(Exts) * Cardinality(music_store.tracks))
  /\ [][ /\ music_store.objects \subseteq music_store'.objects
         /\ music_store'.tracks = music_store.tracks
              => music_store'.objects = music_store.objects ]_vars

\* two tasks of job ids of which one extends the other by "/task1", and
\* both tracks of both tasks stored
C18_Witness ==
  /\ \E t, u \in music_store.tasks :
       /\ t.job_id = JobId /\ t.task_id = "task1"
       /\ u.job_id = JobId \o "/task1" /\ u.task_id = "task2"
  /\ Cardinality(music_store.tracks) = 4
  /\ Cardinality(music_store.objects) = 8

\* a step of the callback handler on the job's music task: the music
\* sub-job or the bucket changes after the task was dispatched
CallbackStep ==
  /\ job.artifacts.suno # "none"
  /\ \/ job'.artifacts.suno # job.artifacts.suno
     \/ music_store' # music_store

\* C19: a step of the callback handler changes nothing of the job but the
\* status of the music sub-job: job status, pipeline state, retry counters,
\* progress, state_history, trace, error and every other artifact keep
\* their values, and so do the HITL record, the call in flight and the
\* last response.  The sub-job changes only from queued, to stored with the
\* tracks in the bucket, or to store_failed with the bucket untouched; from
\* store_failed it never changes again.
C19_CallbackFrame ==
  [][ CallbackStep =>
        /\ job' = [ job EXCEPT !.artifacts.suno = job'.artifacts.suno ]
        /\ hitl' = hitl
        /\ hitl_mode' = hitl_mode
        /\ inflight' = inflight
        /\ response' = response
        /\ job'.artifacts.suno # job.artifacts.suno
             => /\ job.artifacts.suno = "queued"
                /\ job'.artifacts.suno \in {"stored", "store_failed"}
                /\ job'.artifacts.suno = "stored"
                     => /\ music_store'.objects # {}
                        /\ music_store'.objects
                             = KeysOfTracks(music_store')
                /\ job'.artifacts.suno = "store_failed"
                     => music_store' = music_store ]_vars

\* the callback stored the tracks while a clip was still being generated
C19_Witness ==
  /\ job.artifacts.suno = "stored"
  /\ music_store.objects # {}
  /\ job.status = "media_running"
  /\ \E i \in 1..Len(job.artifacts.video_jobs) :
       job.artifacts.video_jobs[i].status = "queued"

\* the write failed: the sub-job is store_failed, the bucket is empty and
\* the job waits in media_running with every clip stored
C19_WitnessFailed ==
  /\ job.artifacts.suno = "store_failed"
  /\ music_store.objects = {}
  /\ job.status = "media_running"
  /\ \A i \in 1..Len(job.artifacts.video_jobs) :
       job.artifacts.video_jobs[i].status = "stored"

\* C20: whenever the render call is in flight, the pipeline is in RENDER or
\* DONE, the status is media_done or completed, or output_url is set, every
\* video-clip job is stored and the music job is stored, with its tracks in
\* the bucket.
C20_RenderNeedsAllStored ==
  ( \/ inflight = "Renderer"
    \/ Reached("RENDER")
    \/ job.status \in {"media_done", "completed"}
    \/ job.artifacts.output_url # "none" )
  => /\ Len(job.artifacts.video_jobs) = NumClips
     /\ \A i \in 1..Len(job.artifacts.video_jobs) :
          job.artifacts.video_jobs[i].status = "stored"
     /\ job.artifacts.suno = "stored"
     /\ music_store.objects # {}

\* the job completed with a fallback clip among the stored clips
C20_Witness ==
  /\ job.state = "DONE"
  /\ job.artifacts.output_url # "none"
  /\ job.artifacts.suno = "stored"
  /\ \E i \in 1..Len(job.artifacts.video_jobs) :
       /\ job.artifacts.video_jobs[i].status = "stored"
       /\ job.artifacts.video_jobs[i].fallback

C21_WitnessRecovered ==
  /\ job.status = "completed"
  /\ job.render_retry = 1

\* C22: under every strategy every video-clip job of the media plan, and so
\* every call submitted to the video provider, asks for at most 15 seconds.
C22_ClipsWithinCap ==
  \A i \in 1..Len(media.clips) : media.clips[i].seconds <= ProviderCapSeconds

\* C23: under parallel_stylelock the plan has exactly one clip per scene,
\* each of at most 15 seconds; a job of 60 seconds has 4 clips; and once
\* rendered there is a crossfade at each of the N - 1 seams (3 for 60
\* seconds), each between 0.3 and 0.7 seconds.
C23_ParallelStylelockPlan ==
  media.strategy = "parallel_stylelock"
    => LET n == Len(media.clips)
       IN  /\ media.duration = 60 => n = 4
           /\ n * 15 >= media.duration /\ (n - 1) * 15 < media.duration
           /\ \A i \in 1..n :
                /\ media.clips[i].seconds <= 15
                /\ media.clips[i].seconds > 0
           /\ media.rendered
                => /\ Len(media.seams) = n - 1
                   /\ \A k \in 1..(n - 1) :
                        media.seams[k] >= 3 /\ media.seams[k] <= 7
           /\ ~media.rendered => media.seams = <<>>

\* a 60-second parallel_stylelock job: 4 clips of 15 seconds, rendered with
\* a crossfade at its 3 seams
C23_Witness ==
  /\ media.strategy = "parallel_stylelock"
  /\ media.duration = 60
  /\ Len(media.clips) = 4
  /\ \A i \in 1..4 : media.clips[i].seconds = 15
  /\ media.rendered
  /\ Len(media.seams) = 3

\* the clips of the plan that are with the video provider now
InFlightClips == { i \in 1..Len(media.clips) : media.clips[i].status = "inflight" }

\* C24: video_chain is strictly sequential.  At most one clip of the job
\* is with the provider at a time, the clips are handed over in the order
\* 1, 2, 3, ..., and a clip N > 1 that has been handed over has a
\* finished predecessor and carries a non-empty context packaged from it
\* (the tail of clip N - 1, or the still of its last second).
C24_VideoChainSequential ==
  media.strategy = "video_chain" =>
    /\ Cardinality(InFlightClips) <= 1
    /\ media.submitted = [ k \in 1..Len(media.submitted) |-> k ]
    /\ \A i \in 2..Len(media.clips) :
         media.clips[i].status # "planned"
           => /\ media.clips[i - 1].status = "done"
              /\ media.clips[i].context \in
                   {"tail_of_previous", "last_second_still"}

C24_Witness ==
  /\ media.strategy = "video_chain"
  /\ Len(media.clips) = 4
  /\ media.submitted = <<1, 2, 3>>
  /\ media.clips[3].status = "inflight"
  /\ media.clips[2].context = "tail_of_previous"
  /\ media.clips[3].context = "last_second_still"

\* C25: in the audio-first strategies (hybrid_overlap, mix_audio_anchor)
\* the music is finished before any clip is handed to the provider.  In
\* mix_audio_anchor a clip 2..N that has been handed over finds clip 1
\* finished and the anchor step settled (anchor extracted, or the
\* fallback of going on without one), and carries that outcome.
C25_AudioFirstOrder ==
  /\ media.strategy \in {"hybrid_overlap", "mix_audio_anchor"}
       => (\A i \in 1..Len(media.clips) :
             media.clips[i].status # "planned" => media.music = "done")
  /\ media.strategy = "mix_audio_anchor"
       => \A i \in 2..Len(media.clips) :
            media.clips[i].status # "planned"
              => /\ media.clips[1].status = "done"
                 /\ media.anchor \in {"anchor_of_clip1", "no_anchor"}
                 /\ media.clips[i].context = media.anchor

\* clips 2 and 3 of a mix_audio_anchor job are with the provider together
C25_Witness ==
  /\ media.strategy = "mix_audio_anchor"
  /\ media.music = "done"
  /\ media.anchor = "anchor_of_clip1"
  /\ {2, 3} \subseteq InFlightClips

\* the same after the anchor fallback
C25_WitnessNoAnchor ==
  /\ media.strategy = "mix_audio_anchor"
  /\ media.anchor = "no_anchor"
  /\ {2, 3} \subseteq InFlightClips

\* hybrid_overlap: all four clips in flight at once, after the music
C25_WitnessHybrid ==
  /\ media.strategy = "hybrid_overlap"
  /\ media.music = "done"
  /\ Cardinality(InFlightClips) = 4

\* the music sub-job of the job is still in flight
MusicInFlight(j) == j.artifacts.suno = "queued"

\* C26: the console keeps polling until the job is terminal and the music
\* sub-job is settled: no step clears the poll timer while the job status
\* is non-terminal, nor while the music sub-job is in flight.
C26_PollsUntilSettled ==
  [][ (console.timer /\ ~console'.timer)
        => (IsTerminal(job.status) /\ ~MusicInFlight(job)) ]_vars

\* C27: once job data has been rendered, the Submit HITL button is enabled
\* only if the most recently rendered data had hitl.requires_human = true.
C27_SubmitOnlyWhenRequired ==
  (console.last_requires_human # "none" /\ console.submit_enabled)
    => console.last_requires_human = "true"

\* a click on Submit HITL that shows one of the two rejection messages
RejectedClick ==
  /\ console'.hitl_status \in {"no job_id", "concept required"}
  /\ console'.hitl_status # console.hitl_status

\* C28: a HITL submission without a job id or without a selected concept
\* is rejected on the spot with a visible message: no request goes to
\* /jobs/{id}/hitl and the job record and the HITL decision stay as they
\* are.  Every request that is sent names the job and one of the rendered
\* concepts, and a request the server rejects changes nothing in the job
\* record either.
C28_RejectedSubmission ==
  [][ /\ RejectedClick
        => /\ SubmitRejected(console)
           /\ console'.requests = console.requests
           /\ console' = [ console EXCEPT
                             !.hitl_status = console'.hitl_status ]
           /\ UNCHANGED <<job, hitl, response>>
      /\ console'.requests # console.requests
        => /\ console.job_id # "none"
           /\ \E i \in 1..Len(console.options) :
                console.options[i] = console.checked
           /\ response'.op = "hitl"
           /\ response'.arg = console.checked
      /\ (console'.requests # console.requests /\ ~response'.ok)
        => UNCHANGED <<job, hitl>> ]_vars

\* the click without a job, as the page loads
C28_Witness ==
  /\ console.job_id = "none"
  /\ console.hitl_status = "no job_id"
  /\ console.requests = 0

\* the click with a job and no option rendered
C28_WitnessNoConcept ==
  /\ console.job_id = JobId
  /\ console.checked = "none"
  /\ console.hitl_status = "concept required"
  /\ console.requests = 0

\* a request the server rejected
C28_WitnessServerRejects ==
  /\ console.requests = 2
  /\ response = Reply("hitl", console.checked, FALSE)
  /\ console.hitl_status = "HITL error"

\* the faults of a job-creation payload the schemas rule out
Malformed(p) ==
  \/ p.prompt = ""
  \/ p.duration_seconds # -1 /\ (p.duration_seconds < 30 \/ p.duration_seconds > 90)
  \/ p.strategy \notin Strategies
  \/ PdfDriven(p.strategy) /\ p.pdf_paths = 0
  \/ p.extra_top
  \/ p.extra_options
  \/ p.extra_attachments

IdsOf(concepts) == { concepts[i].concept_id : i \in 1..Len(concepts) }

C30_WitnessAuto ==
  /\ job.retry_count = 0
  /\ job.artifacts.concepts = ConceptPair(1)
  /\ hitl.selected_concept_id \in {"c1", "c2"}
  /\ "HITL_Pick:auto" \in { job.trace[i] : i \in 1..Len(job.trace) }

\* the pipeline is paused at the HITL gate for a human
PausedAtHITL(j, h) == j.state = "HITL" /\ h.requires_human

\* C31: the status hitl_required mirrors the HITL pause.  After every step
\* the job has the status hitl_required exactly when its pipeline state is
\* HITL and a human decision is still awaited; the status is left only by
\* an accepted HITL decision, and an accepted decision leaves it at once
\* (the job runs again, no human is awaited).
C31_HitlRequiredMirrorsPause ==
  [][ /\ job'.status = "hitl_required" <=> PausedAtHITL(job', hitl')
      /\ (job.status = "hitl_required" /\ job'.status # "hitl_required")
           => /\ response' = Reply("hitl", hitl'.selected_concept_id, TRUE)
              /\ job'.status = "running"
              /\ job'.state = "HITL"
              /\ ~hitl'.requires_human
      /\ (response' # response /\ response'.op = "hitl" /\ response'.ok)
           => /\ job.status = "hitl_required"
              /\ job'.status = "running" ]_vars

\* the job waits at the gate
C31_Witness ==
  /\ job.status = "hitl_required"
  /\ PausedAtHITL(job, hitl)
  /\ response.op = "get"

\* the decision was accepted and the job left hitl_required
C31_WitnessLeft ==
  /\ job.status = "running"
  /\ job.state = "HITL"
  /\ ~hitl.requires_human
  /\ response = Reply("hitl", hitl.selected_concept_id, TRUE)

C32_WitnessAgain ==
  /\ lyric.isSubmitting
  /\ lyric.posted = <<1, 2>>
  /\ lyric.post = 2

NoDuplicates(seq) == \A i, j \in 1..Len(seq) : i # j => seq[i] # seq[j]

\* C33: in both intake forms at most two vibes are selected, without
\* duplicates, and at most one music genre, after any sequence of toggles;
\* a third vibe on the landing form pushes the oldest one out, a third
\* checkbox of the debug console is refused.
C33_AtMostTwoVibes ==
  /\ [](/\ Len(landing.selectedStyles) <= 2
        /\ NoDuplicates(landing.selectedStyles)
        /\ landing.selectedGenres \in musicGenres \cup {"none"}
        /\ Cardinality(style_form.styles) <= 2
        /\ style_form.genre \in musicGenres)
  /\ [][ /\ ( /\ Len(landing.selectedStyles) = 2
              /\ landing'.selectedStyles # landing.selectedStyles
              /\ Len(landing'.selectedStyles) = 2 )
              => /\ landing'.selectedStyles[1] = landing.selectedStyles[2]
                 /\ ~Includes(landing.selectedStyles,
                              landing'.selectedStyles[2])
         /\ Cardinality(style_form.styles) = 2
              => style_form'.styles \subseteq style_form.styles ]_vars

C33_Witness ==
  /\ landing.selectedStyles = <<"cute", "minimal">>
  /\ landing.selectedGenres = "jazz"
  /\ style_form.styles = {"modern", "cute"}
  /\ style_form.genre = "rock"

\* the file strategies/<strategy_id>.md
StrategyFile(id) == Append(id, "md")

\* C34: GET /strategies returns exactly the ids whose file <id>.md is in the
\* strategy directory, README left out; putting such a file in or taking it
\* out changes the listing by exactly that id, any other file changes
\* nothing.
C34_ListingIsTheDirectory ==
  [][ /\ strategy_dir'.listing # strategy_dir.listing
           => /\ strategy_dir'.files = strategy_dir.files
              /\ \A name \in FileNames :
                   Stem(name) \in strategy_dir'.listing
                     <=> /\ StrategyFile(Stem(name)) \in strategy_dir.files
                         /\ Stem(name) # <<"README">>
              /\ \A id \in strategy_dir'.listing :
                   StrategyFile(id) \in strategy_dir.files
      /\ \A name \in FileNames :
           LET before == ListStrategies(strategy_dir.files)
               after  == ListStrategies(strategy_dir'.files)
               isStrategy == name = StrategyFile(Stem(name))
                               /\ Stem(name) # <<"README">>
           IN  /\ strategy_dir'.files = strategy_dir.files \cup {name}
                  /\ name \notin strategy_dir.files
                    => IF isStrategy
                       THEN Stem(name) \notin before
                              /\ after = before \cup {Stem(name)}
                       ELSE after = before
               /\ strategy_dir'.files = strategy_dir.files \ {name}
                  /\ name \in strategy_dir.files
                    => IF isStrategy
                       THEN Stem(name) \in before
                              /\ after = before \ {Stem(name)}
                       ELSE after = before ]_vars

C34_Witness ==
  /\ strategy_dir.listing = { <<"origin">>, <<"video_chain">> }
  /\ strategy_dir.files =
       { <<"README", "md">>, <<"origin", "md">>, <<"video_chain", "md">>,
         <<"video_chain", "txt">>, <<"notes">> }

\* the clips whose record differs between two lists of clip jobs
ChangedClips(before, after) ==
  { i \in 1..Len(before) : after[i] # before[i] }

\* C35: a failed clip is handled alone: the step that retries it or
\* replaces it by its fallback changes the record of that clip only and
\* leaves the other clips, the music job, the locked blueprint, the style
\* lock and the position of the pipeline as they were; a clip is retried at
\* most 2 times and the fallback is taken only after the second retry.
C35_ClipFailureIsolated ==
  [][ LET before == job.artifacts.video_jobs
          after  == job'.artifacts.video_jobs
      IN  (before # <<>> /\ after # before)
            => /\ Len(after) = Len(before)
               /\ Cardinality(ChangedClips(before, after)) = 1
               /\ \A i \in ChangedClips(before, after) :
                    /\ before[i].status = "queued"
                    /\ after[i].retries <= 2
                    /\ after[i].retries \in
                         {before[i].retries, before[i].retries + 1}
                    /\ after[i].retries > before[i].retries
                         => after[i].status = "queued" /\ ~after[i].fallback
                    /\ after[i].fallback
                         => before[i].retries = 2 /\ after[i].status = "stored"
               /\ job'.artifacts.suno = job.artifacts.suno
               /\ job'.artifacts.blueprint = job.artifacts.blueprint
               /\ job'.artifacts.style = job.artifacts.style
               /\ job'.state = job.state
               /\ job'.state_history = job.state_history
               /\ job'.status = job.status
               /\ music_store' = music_store ]_vars

\* one clip went through both retries to its fallback while the other clip
\* was stored at once and the music is stored
C35_Witness ==
  /\ Len(job.artifacts.video_jobs) = NumClips
  /\ job.artifacts.video_jobs[1].fallback
  /\ job.artifacts.video_jobs[1].retries = 2
  /\ job.artifacts.video_jobs[2] =
       [ status |-> "stored", retries |-> 0, fallback |-> FALSE ]
  /\ job.artifacts.suno = "stored"
  /\ job.status = "media_running"

\* the music sub-job is settled, or the job never started its media
MusicSettled(j) ==
  j.artifacts.suno \in {"stored", "store_failed", "error", "none"}

\* C36 as stated: once a poll of the debug console has read a terminal
\* status (completed, failed or canceled) of a job whose music sub-job is
\* settled or was never started, the poll timer is cleared and the Run
\* button is enabled again.
C36_PollingStops ==
  ( /\ console.polled_status \in {"completed", "failed", "canceled"}
    /\ MusicSettled(job) )
    => /\ ~console.timer
       /\ ~console.processing

\* C37 as stated: in the primary web client at most one status-polling
\* interval timer is live at any time, whatever the order of job
\* submissions and "load status" clicks.
C37_OnePollTimer == Cardinality(web.live) <= 1

\* C38 as stated: on the lyric-selection screen, once the decision was
\* posted successfully and while isSubmitting is true, the video-status
\* polling interval is active; no late callback of the lyrics polling
\* stops it.
C38_VideoPollingWhileSubmitting ==
  ( /\ lyric.page = "lyricselection"
    /\ lyric.isSubmitting
    /\ lyric.post = 0 )
    => lyric.polling = "video"

\* C39 as stated: on the landing form, from a Generate click until the
\* navigation the button stays disabled (isGenerating is true), so one
\* visit sends at most one job-creation POST and has at most one navigation
\* timer pending, the one that timeoutRef names and unmounting clears.
C39_OneJobPerGenerate ==
  /\ (landing.page = "landing" /\ landing.clicks > 0) => landing.isGenerating
  /\ landing.clicks <= 1
  /\ Cardinality(landing.timers) <= 1
  /\ landing.timers \subseteq {landing.timeoutRef}

C40_TerminatesUnlessStoreFailed ==
  /\ <>[]( \/ IsTerminal(job.status)
           \/ /\ job.status = "media_running"
              /\ job.artifacts.suno = "store_failed" )
  /\ [](Count(job.state_history, "CONCEPT_GEN") <= 2)

C40_WitnessStoreFailed ==
  /\ job.status = "media_running"
  /\ job.artifacts.suno = "store_failed"
  /\ AllStoredMutClipsOnly(job.artifacts)

\* the steps fairness is assumed for
FairStep == PipelineStep \/ DecisionPosted

\* how far a job has come: the states entered, the call under way, the
\* status within the state, the clip and music sub-jobs settled and the
\* retries used
Advance(j, call) ==
  3 * Len(j.state_history)
  + (IF call # "none" THEN 1 ELSE 0)
  + (CASE j.status \in {"queued", "hitl_required"} -> 0
       [] j.status = "media_done" -> 2
       [] OTHER -> 1)
  + j.retry_count
  + j.render_retry
  + (IF j.artifacts.suno \in {"none", "queued"} THEN 0 ELSE 1)
  + Count(j.artifacts.video_jobs,
          [ status |-> "stored", retries |-> 0, fallback |-> FALSE ]) * 3
  + Count(j.artifacts.video_jobs,
          [ status |-> "queued", retries |-> 1, fallback |-> FALSE ])
  + Count(j.artifacts.video_jobs,
          [ status |-> "stored", retries |-> 1, fallback |-> FALSE ]) * 3
  + Count(j.artifacts.video_jobs,
          [ status |-> "queued", retries |-> 2, fallback |-> FALSE ]) * 2
  + Count(j.artifacts.video_jobs,
          [ status |-> "stored", retries |-> 2, fallback |-> FALSE ]) * 3
  + Count(j.artifacts.video_jobs,
          [ status |-> "stored", retries |-> 2, fallback |-> TRUE ]) * 3

\* the most a job can advance: eleven states entered (nine and the two of
\* the retry) and every sub-job settled
FullAdvance ==
  3 * 11 + 1 + 2 + MaxRetry + MaxRenderRetry + 1 + 3 * NumClips

\* the steps a job has left at most: for a job in a terminal status only
\* the return of the call under way
Rank(j, call) ==
  IF IsTerminal(j.status)
    THEN IF call # "none" THEN 1 ELSE 0
    ELSE 2 + FullAdvance - Advance(j, call)

\* the job waits in media_running for a music sub-job whose storage failed
StoreFailed(j) ==
  j.status = "media_running" /\ j.artifacts.suno = "store_failed"

====
